---- MODULE Spec2Model ----
(***************************************************************************)
(* A model of the statistics and charting library in dataManipulation.py:  *)
(* the descriptive statistics (median, quartiles, whisker search, least    *)
(* squares regression), the DiscreteData object and the chart geometry.    *)
(*                                                                         *)
(* Numbers.  Python computes with floats; the model computes with exact    *)
(* rationals <<numerator, denominator>> in lowest terms with a positive    *)
(* denominator.  None is the pair <<0, 0>>.  Data values are integers.     *)
(***************************************************************************)
EXTENDS Integers, Sequences, FiniteSets, TLC

VARIABLES
    values,     \* the list the caller passes to DiscreteData / median
    obj,        \* the DiscreteData object: [alive, data, size, median]
    last,       \* outcome of the last statistics call: [op, status, val]
    box,        \* the values drawBoxplot computed on its last call
    xData,      \* first argument of linear_regression
    yData,      \* second argument of linear_regression
    reg,        \* outcome of the last linear_regression call
    graphArgs,  \* the constructor arguments of the Graph
    graph,      \* the Graph object's fields
    gstatus,    \* "new", "ok" (constructed), or the error that ended __init__
    gcall,      \* outcome of the last call of a Graph method: [op, status]
    rawInterval,\* the argument of next_lowest_decimultiple
    interval,   \* outcome of the last next_lowest_decimultiple call
    series,     \* the lists the caller builds a MultivariableDiscreteData of
    mvd,        \* the MultivariableDiscreteData object
    mcall,      \* outcome of the last call on it: [op, status, msg, val]
    chartArgs,  \* the data and constructor arguments of the chart
    chart,      \* the BoxplotGraph or Scatterplot object, its geometry in g
    canvas,     \* the draw commands of the chart's last draw call
    ccall       \* outcome of the last call on the chart: [op, status, window]

vars == <<values, obj, last, box, xData, yData, reg,
          graphArgs, graph, gstatus, gcall,
          rawInterval, interval, series, mvd, mcall,
          chartArgs, chart, canvas, ccall>>

statVars == <<values, obj, last, box>>
regVars == <<xData, yData, reg>>
graphVars == <<graphArgs, graph, gstatus, gcall>>
niceVars == <<rawInterval, interval>>
mvdVars == <<series, mvd, mcall>>
chartVars == <<chartArgs, chart, canvas, ccall>>

---------------------------------------------------------------------------
(* Bounds of the model *)

MaxLen == 5         \* longest dataset over all the data values
MaxExtra == 3       \* two-valued datasets are up to MaxLen + MaxExtra long
MaxVal == 1         \* generated data values are 0..MaxVal, with -Far and Far
Far == MaxVal + 8   \* a value far from the others, on both sides

---------------------------------------------------------------------------
(* Numbers are exact rationals <<n, d>>.  Where the rounding of Python's    *)
(* floats decides what the code does, the doubles further down decide.     *)

None == <<0, 0>>

Abs(n) == IF n < 0 THEN -n ELSE n

RECURSIVE GCD(_, _)
GCD(a, b) == IF b = 0 THEN a ELSE GCD(b, a % b)

\* n/d in lowest terms, d # 0
Rat(n, d) ==
    LET g == GCD(Abs(n), Abs(d))
        s == IF d < 0 THEN -1 ELSE 1
    IN  <<(s * n) \div g, (s * d) \div g>>

RInt(n) == <<n, 1>>
RAdd(a, b) == Rat(a[1] * b[2] + b[1] * a[2], a[2] * b[2])
RSub(a, b) == Rat(a[1] * b[2] - b[1] * a[2], a[2] * b[2])
RMul(a, b) == Rat(a[1] * b[1], a[2] * b[2])
\* a / b, for b # 0
RDiv(a, b) == Rat(a[1] * b[2], a[2] * b[1])
RLt(a, b) == a[1] * b[2] < b[1] * a[2]
RLe(a, b) == a[1] * b[2] <= b[1] * a[2]
RIsInt(a) == a[2] = 1

\* Python's int(x): truncation toward zero
PyInt(a) == IF a[1] >= 0 THEN a[1] \div a[2] ELSE -((-a[1]) \div a[2])

\* Python's list indexing s[i]: a negative index counts from the end.
InRange(s, i) == -Len(s) <= i /\ i < Len(s)
PyAt(s, i) == IF i >= 0 THEN s[i + 1] ELSE s[Len(s) + i + 1]

---------------------------------------------------------------------------
(* Python's float: the IEEE 754 double, for the places where the code's   *)
(* rounding decides an outcome.  A natural number of any size is a list   *)
(* of limbs, least significant first, with no leading zero limb; a double *)
(* is m * 2^e with m such a number, odd unless the double is zero.        *)

LimbBits == 15
LimbBase == 2^LimbBits

Limb(a, i) == IF i <= Len(a) THEN a[i] ELSE 0

\* a without its leading zero limbs
BigNorm(a) ==
    SubSeq(a, 1, IF \A i \in 1..Len(a) : a[i] = 0 THEN 0
                 ELSE CHOOSE i \in 1..Len(a) :
                        a[i] # 0 /\ \A j \in (i + 1)..Len(a) : a[j] = 0)

\* an int k >= 0
Big(k) ==
    BigNorm(<<k % LimbBase, (k \div LimbBase) % LimbBase,
              k \div (LimbBase * LimbBase)>>)

\* the int a is, for a of at most three limbs
BigToInt(a) ==
    Limb(a, 1) + LimbBase * Limb(a, 2) + LimbBase * LimbBase * Limb(a, 3)

BigLess(a, b) ==
    \/ Len(a) < Len(b)
    \/ /\ Len(a) = Len(b)
       /\ \E i \in 1..Len(a) :
            a[i] < b[i] /\ \A j \in (i + 1)..Len(a) : a[j] = b[j]

BigLe(a, b) == a = b \/ BigLess(a, b)

Longer(a, b) == IF Len(a) >= Len(b) THEN Len(a) ELSE Len(b)

\* a + b + c, c a carry of 0 or 1
BigAdd(a, b, c) ==
    LET carry[i \in 0..Longer(a, b)] ==
            IF i = 0 THEN c
            ELSE (Limb(a, i) + Limb(b, i) + carry[i - 1]) \div LimbBase
    IN  BigNorm([i \in 1..(Longer(a, b) + 1) |->
                    (Limb(a, i) + Limb(b, i) + carry[i - 1]) % LimbBase])

\* a - b, for a >= b
BigSub(a, b) ==
    LET borrow[i \in 0..Len(a)] ==
            IF i = 0 THEN 0
            ELSE IF a[i] - Limb(b, i) - borrow[i - 1] < 0 THEN 1 ELSE 0
    IN  BigNorm([i \in 1..Len(a) |->
                    (a[i] - Limb(b, i) - borrow[i - 1] + LimbBase) % LimbBase])

\* a * k + c, for 0 <= k, c < LimbBase
BigMulSmall(a, k, c) ==
    LET carry[i \in 0..Len(a)] ==
            IF i = 0 THEN c ELSE (a[i] * k + carry[i - 1]) \div LimbBase
    IN  BigNorm([i \in 1..(Len(a) + 1) |->
                    (Limb(a, i) * k + carry[i - 1]) % LimbBase])

ShiftLimbs(a, n) == BigNorm([i \in 1..n |-> 0] \o a)

BigMul(a, b) ==
    LET partial[j \in 0..Len(b)] ==
            IF j = 0 THEN <<>>
            ELSE BigAdd(partial[j - 1],
                        ShiftLimbs(BigMulSmall(a, b[j], 0), j - 1), 0)
    IN  partial[Len(b)]

\* the number of bits of a limb k
BitLength(k) ==
    CHOOSE n \in 0..LimbBits : k < 2^n /\ (n = 0 \/ 2^(n - 1) <= k)

BigBitLength(a) ==
    IF a = <<>> THEN 0 ELSE LimbBits * (Len(a) - 1) + BitLength(a[Len(a)])

\* a * 2^k
BigShl(a, k) == ShiftLimbs(BigMulSmall(a, 2^(k % LimbBits), 0), k \div LimbBits)

DropLimbs(a, n) == IF n >= Len(a) THEN <<>> ELSE SubSeq(a, n + 1, Len(a))

ShrLimbs(a, s) ==
    [i \in 1..Len(a) |->
        a[i] \div 2^s + (Limb(a, i + 1) % 2^s) * 2^(LimbBits - s)]

\* a \div 2^k
BigShr(a, k) == BigNorm(ShrLimbs(DropLimbs(a, k \div LimbBits), k % LimbBits))

\* bit i of a, bit 0 the least significant
BigBit(a, i) == (Limb(a, i \div LimbBits + 1) \div 2^(i % LimbBits)) % 2

\* a % 2^k = 0
BigLowZero(a, k) ==
    /\ \A i \in 1..(k \div LimbBits) : Limb(a, i) = 0
    /\ Limb(a, k \div LimbBits + 1) % 2^(k % LimbBits) = 0

\* the number of trailing zero bits of a limb k # 0
TrailingZeros(k) ==
    CHOOSE n \in 0..(LimbBits - 1) : k % 2^n = 0 /\ (k \div 2^n) % 2 = 1

\* the number of trailing zero bits of a # 0
BigTrailingZeros(a) ==
    LET low == CHOOSE i \in 1..Len(a) : a[i] # 0 /\ \A j \in 1..(i - 1) : a[j] = 0
    IN  LimbBits * (low - 1) + TrailingZeros(a[low])

\* long division, a bit of the dividend at a time: r is the remainder so
\* far with the next bit appended, q the bits of the quotient so far
BigDivBit(i, q, r, d) ==
    IF BigLe(d, r) THEN [i |-> i, q |-> 2 * q + 1, r |-> BigSub(r, d)]
    ELSE [i |-> i, q |-> 2 * q, r |-> r]

\* the limb of the quotient that the next limb of the dividend gives, and
\* the remainder after it
BigDivLimb(r, limb, d) ==
    LET bits[s \in [i : Nat, q : Nat, r : Seq(Nat)]] ==
            IF s.i = 0 THEN s
            ELSE bits[BigDivBit(s.i - 1, s.q,
                                BigMulSmall(s.r, 2,
                                            (limb \div 2^(s.i - 1)) % 2),
                                d)]
    IN  bits[[i |-> LimbBits, q |-> 0, r |-> r]]

BigDivStep(i, q, step) == [i |-> i, q |-> <<step.q>> \o q, r |-> step.r]

\* quotient and remainder of a by a limb k # 0, a limb of a at a time
BigDivSmall(a, k) ==
    LET rem[i \in 0..Len(a)] ==
            IF i = 0 THEN 0
            ELSE (rem[i - 1] * LimbBase + a[Len(a) - i + 1]) % k
    IN  [q |-> BigNorm([j \in 1..Len(a) |->
                           (rem[Len(a) - j] * LimbBase + a[j]) \div k]),
         r |-> Big(rem[Len(a)])]

\* quotient and remainder of a by d, for d # 0
BigDivMod(a, d) ==
    LET limbs[s \in [i : Nat, q : Seq(Nat), r : Seq(Nat)]] ==
            IF s.i = 0 THEN [q |-> BigNorm(s.q), r |-> s.r]
            ELSE limbs[BigDivStep(s.i - 1, s.q,
                                  BigDivLimb(s.r, a[s.i], d))]
    IN  IF Len(d) = 1 THEN BigDivSmall(a, d[1])
        ELSE limbs[[i |-> Len(a), q |-> <<>>, r |-> <<>>]]

\* a double: sign s (1 or -1), significand m (odd, or <<>> for zero) and
\* exponent e stand for s * m * 2^e; zero is kept with the sign 1
FZero == [s |-> 1, m |-> <<>>, e |-> 0]

\* m * 2^e with an odd m
FExact(m, e) ==
    IF m = <<>> THEN FZero
    ELSE [s |-> 1, m |-> BigShr(m, BigTrailingZeros(m)),
          e |-> e + BigTrailingZeros(m)]

\* m * 2^e without its low k bits, rounded to nearest, ties to even
FRoundAt(m, e, k) ==
    FExact(IF BigBit(m, k - 1) = 1 /\ (~BigLowZero(m, k - 1) \/ BigBit(m, k) = 1)
           THEN BigAdd(BigShr(m, k), <<>>, 1)
           ELSE BigShr(m, k),
           e + k)

\* the double nearest to m * 2^e: 53 significant bits
FRound(m, e) ==
    IF BigBitLength(m) <= 53 THEN FExact(m, e)
    ELSE FRoundAt(m, e, BigBitLength(m) - 53)

\* x with the sign s
FSigned(s, x) == IF x.m = <<>> THEN x ELSE [x EXCEPT !.s = s]

\* float(n) for an int n
FInt(n) == FSigned(IF n < 0 THEN -1 ELSE 1, FExact(Big(Abs(n)), 0))

\* x * y
FMul(x, y) == FSigned(x.s * y.s, FRound(BigMul(x.m, y.m), x.e + y.e))

\* the quotient of x.m * 2^k by y.m, a last bit added that tells whether
\* the division left a remainder
FQuotient(dm) == BigMulSmall(dm.q, 2, IF dm.r = <<>> THEN 0 ELSE 1)

FDivShift(x, y) ==
    IF 55 + BigBitLength(y.m) > BigBitLength(x.m)
    THEN 55 + BigBitLength(y.m) - BigBitLength(x.m) ELSE 0

\* x / y, for y # 0: exact when the significand of y divides that of x
FDiv(x, y) ==
    FSigned(x.s * y.s,
            IF /\ Len(x.m) <= 2
               /\ Len(y.m) <= 2
               /\ BigToInt(x.m) % BigToInt(y.m) = 0
            THEN FExact(Big(BigToInt(x.m) \div BigToInt(y.m)), x.e - y.e)
            ELSE FRound(FQuotient(BigDivMod(BigShl(x.m, FDivShift(x, y)),
                                            y.m)),
                        x.e - y.e - FDivShift(x, y) - 1))

\* the double a literal or a quotient of two ints evaluates to
FromRat(a) == FDiv(FInt(a[1]), FInt(a[2]))

\* x <= y
FLe(x, y) ==
    LET \* |a| <= |b|
        magLe(a, b) ==
            IF a.e <= b.e THEN BigLe(a.m, BigShl(b.m, b.e - a.e))
            ELSE BigLe(BigShl(a.m, a.e - b.e), b.m)
    IN  IF x.s # y.s THEN x.s = -1
        ELSE IF x.s = 1 THEN magLe(x, y)
        ELSE magLe(y, x)

\* math.floor(x): below zero a double with a fraction (its odd significand
\* has a negative exponent) goes down to the next int
FFloor(x) ==
    LET \* the whole part of |x|
        trunc == BigToInt(IF x.e >= 0 THEN BigShl(x.m, x.e)
                          ELSE BigShr(x.m, -x.e))
    IN  IF x.s = 1 THEN trunc
        ELSE IF x.e >= 0 THEN -trunc
        ELSE -trunc - 1

---------------------------------------------------------------------------
(* list.sort(): ascending *)

RECURSIVE Insert(_, _)
Insert(s, x) ==
    IF s = <<>> THEN <<x>>
    ELSE IF x <= Head(s) THEN <<x>> \o s
    ELSE <<Head(s)>> \o Insert(Tail(s), x)

RECURSIVE Sort(_)
Sort(s) == IF s = <<>> THEN <<>> ELSE Insert(Sort(Tail(s)), Head(s))

RECURSIVE SeqSum(_)
SeqSum(s) == IF s = <<>> THEN 0 ELSE Head(s) + SeqSum(Tail(s))

RECURSIVE SeqMax(_)
SeqMax(s) == IF Len(s) = 1 THEN s[1]
             ELSE LET m == SeqMax(Tail(s)) IN IF s[1] >= m THEN s[1] ELSE m

RECURSIVE SeqMin(_)
SeqMin(s) == IF Len(s) = 1 THEN s[1]
             ELSE LET m == SeqMin(Tail(s)) IN IF s[1] <= m THEN s[1] ELSE m

---------------------------------------------------------------------------
(* Outcomes of a call: a value, or the exception that ended it *)

Ok(v) == [status |-> "ok", val |-> v]
Raise(e) == [status |-> e, val |-> None]

---------------------------------------------------------------------------
(* median(data) *)

\* a bug that forgets to sort
median_unsorted(data) ==
    LET length == Len(data)
        lo == PyInt(RSub(Rat(length, 2), Rat(1, 2)))
        hi == PyInt(RAdd(Rat(length, 2), Rat(1, 2)))
        mid == PyInt(Rat(length, 2))
    IN  IF length % 2 = 0
        THEN IF InRange(data, lo) /\ InRange(data, hi)
             THEN Ok(Rat(PyAt(data, lo) + PyAt(data, hi), 2))
             ELSE Raise("IndexError")
        ELSE Ok(RInt(PyAt(data, mid)))

median(data) ==
    LET sorted == Sort(data)
        length == Len(sorted)
        lo == PyInt(RSub(Rat(length, 2), Rat(1, 2)))
        hi == PyInt(RAdd(Rat(length, 2), Rat(1, 2)))
        mid == PyInt(Rat(length, 2))
    IN  IF length % 2 = 0
        THEN IF InRange(sorted, lo) /\ InRange(sorted, hi)
             THEN Ok(Rat(PyAt(sorted, lo) + PyAt(sorted, hi), 2))
             ELSE Raise("IndexError")
        ELSE Ok(RInt(PyAt(sorted, mid)))

---------------------------------------------------------------------------
(* DiscreteData.quarterOne / DiscreteData.quarterThree *)

\* ((n - 1) / 4) % 1 == 0
WholeQuarter(n) == (n - 1) % 4 = 0

\* a bug that never averages
quarterOne_no_average(data) ==
    LET tempData == Sort(data)
        n == Len(tempData)
        j == PyInt(Rat(n - 1, 4))
    IN  IF InRange(tempData, j) THEN Ok(RInt(PyAt(tempData, j)))
        ELSE Raise("IndexError")

quarterOne(data) ==
    LET tempData == Sort(data)
        n == Len(tempData)
        q == Rat(n - 1, 4)
        i == PyInt(RAdd(q, Rat(1, 2)))
        j == PyInt(q)
    IN  IF WholeQuarter(n)
        THEN IF InRange(tempData, i) THEN Ok(RInt(PyAt(tempData, i)))
             ELSE Raise("IndexError")
        ELSE IF InRange(tempData, j) /\ InRange(tempData, j + 1)
             THEN Ok(Rat(PyAt(tempData, j) + PyAt(tempData, j + 1), 2))
             ELSE Raise("IndexError")

\* a variant that mirrors quarterOne, counting from the top end
quarterThree_symmetric(data) ==
    LET tempData == Sort(data)
        n == Len(tempData)
        q == Rat(n - 1, 4)
        i == (n - 1) - PyInt(q)
    IN  IF WholeQuarter(n)
        THEN IF InRange(tempData, i) THEN Ok(RInt(PyAt(tempData, i)))
             ELSE Raise("IndexError")
        ELSE IF InRange(tempData, i) /\ InRange(tempData, i - 1)
             THEN Ok(Rat(PyAt(tempData, i) + PyAt(tempData, i - 1), 2))
             ELSE Raise("IndexError")

\* a bug that returns the first quartile as the third
quarterThree_as_first(data) == quarterOne(data)

quarterThree(data) ==
    LET tempData == Sort(data)
        n == Len(tempData)
        q == Rat(n - 1, 4)
        i == 3 * PyInt(RAdd(q, Rat(1, 2)))
        j == 3 * PyInt(q)
    IN  IF WholeQuarter(n)
        THEN IF InRange(tempData, i) THEN Ok(RInt(PyAt(tempData, i)))
             ELSE Raise("IndexError")
        ELSE IF InRange(tempData, j) /\ InRange(tempData, j + 1)
             THEN Ok(Rat(PyAt(tempData, j) + PyAt(tempData, j + 1), 2))
             ELSE Raise("IndexError")

---------------------------------------------------------------------------
(* value_before_threshold(bound, values, belowThreshold) *)

\* positions (from 0) of the sorted values that are > bound
Above(sorted, bound) ==
    {i \in 0..(Len(sorted) - 1) : RLt(bound, RInt(PyAt(sorted, i)))}

SetMin(S) == CHOOSE m \in S : \A x \in S : m <= x

\* a bug that raises whenever nothing is above the bound
value_before_threshold_no_fallback(bound, vals, belowThreshold) ==
    LET valuesCopy == Sort(vals)
        above == Above(valuesCopy, bound)
    IN  IF above # {}
        THEN Ok(RInt(PyAt(valuesCopy,
                          SetMin(above) - (IF belowThreshold THEN 1 ELSE 0))))
        ELSE Raise("ValueError")

\* a bug that takes belowThreshold the other way round
value_before_threshold_swapped(bound, vals, belowThreshold) ==
    LET valuesCopy == Sort(vals)
        above == Above(valuesCopy, bound)
    IN  IF above # {}
        THEN Ok(RInt(PyAt(valuesCopy,
                          SetMin(above) - (IF belowThreshold THEN 0 ELSE 1))))
        ELSE IF ~belowThreshold
             THEN IF valuesCopy = <<>> THEN Raise("IndexError")
                  ELSE Ok(RInt(PyAt(valuesCopy, -1)))
             ELSE Raise("ValueError")

\* a bug that compares with >= instead of >
value_before_threshold_inclusive(bound, vals, belowThreshold) ==
    LET valuesCopy == Sort(vals)
        above == {i \in 0..(Len(valuesCopy) - 1) :
                      RLe(bound, RInt(PyAt(valuesCopy, i)))}
    IN  IF above # {}
        THEN Ok(RInt(PyAt(valuesCopy,
                          SetMin(above) - (IF belowThreshold THEN 1 ELSE 0))))
        ELSE IF belowThreshold
             THEN IF valuesCopy = <<>> THEN Raise("IndexError")
                  ELSE Ok(RInt(PyAt(valuesCopy, -1)))
             ELSE Raise("ValueError")

value_before_threshold(bound, vals, belowThreshold) ==
    LET valuesCopy == Sort(vals)
        above == Above(valuesCopy, bound)
    IN  IF above # {}
        THEN \* the first i with value > bound; valuesCopy[i - belowThreshold]
             Ok(RInt(PyAt(valuesCopy,
                          SetMin(above) - (IF belowThreshold THEN 1 ELSE 0))))
        ELSE IF belowThreshold
             THEN IF valuesCopy = <<>> THEN Raise("IndexError")
                  ELSE Ok(RInt(PyAt(valuesCopy, -1)))
             ELSE Raise("ValueError")

---------------------------------------------------------------------------
(* The DiscreteData object *)

NoObj == [alive |-> FALSE, data |-> <<>>, label |-> "", units |-> "",
          size |-> 0, median |-> None]

\* DiscreteData.__init__: the object, or the exception median() raised
DiscreteData(data) ==
    LET m == median(data)
    IN  IF m.status = "ok"
        THEN [status |-> "ok",
              obj |-> [alive |-> TRUE, data |-> data, label |-> "",
                       units |-> "", size |-> Len(data), median |-> m.val]]
        ELSE [status |-> m.status, obj |-> NoObj]

---------------------------------------------------------------------------
(* BoxplotGraph.drawBoxplot: the values it computes before it draws *)

NoBox == [status |-> "none", medianValue |-> None, quarterOne |-> None,
          quarterThree |-> None, iqr |-> None, lowerThreshold |-> None,
          upperThreshold |-> None, lowerBound |-> None, upperBound |-> None,
          outliers |-> <<>>]

OnePointFive == Rat(3, 2)

\* a bug that flags the whisker ends themselves
Outliers_inclusive(data, lowerBound, upperBound) ==
    SelectSeq(data, LAMBDA dataPoint :
                  \/ RLe(RInt(dataPoint), lowerBound)
                  \/ RLe(upperBound, RInt(dataPoint)))

\* for dataPoint in data.data: if dataPoint < lowerBound or dataPoint > upperBound
Outliers(data, lowerBound, upperBound) ==
    SelectSeq(data, LAMBDA dataPoint :
                  \/ RLt(RInt(dataPoint), lowerBound)
                  \/ RLt(upperBound, RInt(dataPoint)))

drawBoxplot(d) ==
    LET q1 == quarterOne(d.data)
        q3 == quarterThree(d.data)
        iqr == RSub(q3.val, q1.val)
        lowerThreshold == RSub(q1.val, RMul(OnePointFive, iqr))
        upperThreshold == RAdd(q3.val, RMul(OnePointFive, iqr))
        lower == value_before_threshold(lowerThreshold, d.data, FALSE)
        upper == value_before_threshold(upperThreshold, d.data, TRUE)
        base == [NoBox EXCEPT !.medianValue = d.median]
    IN  IF q1.status # "ok" THEN [base EXCEPT !.status = q1.status]
        ELSE IF q3.status # "ok"
        THEN [base EXCEPT !.status = q3.status, !.quarterOne = q1.val]
        ELSE LET stats == [base EXCEPT !.quarterOne = q1.val,
                                       !.quarterThree = q3.val,
                                       !.iqr = iqr,
                                       !.lowerThreshold = lowerThreshold,
                                       !.upperThreshold = upperThreshold]
             IN  IF lower.status # "ok"
                 THEN [stats EXCEPT !.status = lower.status]
                 ELSE IF upper.status # "ok"
                 THEN [stats EXCEPT !.status = upper.status,
                                    !.lowerBound = lower.val]
                 ELSE [stats EXCEPT !.status = "ok",
                                    !.lowerBound = lower.val,
                                    !.upperBound = upper.val,
                                    !.outliers = Outliers(d.data, lower.val,
                                                          upper.val)]

---------------------------------------------------------------------------
(* The inputs *)

Values == {-Far} \cup (0..MaxVal) \cup {Far}

BoundedSeq(S, n) == UNION {[1..k -> S] : k \in 0..n}

\* the two datasets of the documented examples
EightValues == <<1, 2, 3, 4, 5, 6, 7, 8>>
OutlierExample == <<1, 2, 2, 3, 4, 5, 50>>

\* longer datasets, over two values
LongDatasets ==
    UNION {[1..k -> {0, Far}] : k \in (MaxLen + 1)..(MaxLen + MaxExtra)}

Datasets ==
    BoundedSeq(Values, MaxLen) \cup LongDatasets
        \cup {EightValues, OutlierExample}

NoCall == [op |-> "none", status |-> "none", val |-> None]
NoReg == [status |-> "none", slope |-> None, intercept |-> None]

---------------------------------------------------------------------------
(* The statistics calls *)

Called(op, r) == [op |-> op, status |-> r.status, val |-> r.val]

\* median(values), called on the caller's list
Median ==
    /\ last' = Called("median", median(values))
    /\ UNCHANGED <<values, obj, box>>
    /\ UNCHANGED <<regVars, graphVars, niceVars, mvdVars, chartVars>>

\* DiscreteData(values)
NewDiscreteData ==
    /\ ~obj.alive
    /\ LET r == DiscreteData(values)
       IN  /\ obj' = r.obj
           /\ last' = [op |-> "__init__", status |-> r.status, val |-> None]
    /\ UNCHANGED <<values, box>>
    /\ UNCHANGED <<regVars, graphVars, niceVars, mvdVars, chartVars>>

QuarterOne ==
    /\ obj.alive
    /\ last' = Called("quarterOne", quarterOne(obj.data))
    /\ UNCHANGED <<values, obj, box>>
    /\ UNCHANGED <<regVars, graphVars, niceVars, mvdVars, chartVars>>

QuarterThree ==
    /\ obj.alive
    /\ last' = Called("quarterThree", quarterThree(obj.data))
    /\ UNCHANGED <<values, obj, box>>
    /\ UNCHANGED <<regVars, graphVars, niceVars, mvdVars, chartVars>>

\* drawBoxplot(window, obj, ...): the statistics it computes
DrawBoxplot ==
    /\ obj.alive
    /\ box' = drawBoxplot(obj)
    /\ last' = [op |-> "drawBoxplot", status |-> box'.status, val |-> None]
    /\ UNCHANGED <<values, obj>>
    /\ UNCHANGED <<regVars, graphVars, niceVars, mvdVars, chartVars>>

---------------------------------------------------------------------------
(* sumProducts and linear_regression *)

sumProducts(dataOne, dataTwo) ==
    IF Len(dataOne) # Len(dataTwo) THEN Raise("ValueError")
    ELSE Ok(RInt(SeqSum([i \in 1..Len(dataOne) |-> dataOne[i] * dataTwo[i]])))

RegOk(slope, intercept) ==
    [status |-> "ok", slope |-> slope, intercept |-> intercept]
RegRaise(e) == [status |-> e, slope |-> None, intercept |-> None]

\* a bug that divides by x's sum of squares alone
linear_regression_no_mean(x, y) ==
    IF Len(x) # Len(y) THEN RegRaise("ValueError")
    ELSE LET n == RInt(Len(x))
             sxy == sumProducts(x, y).val
             sxx == sumProducts(x, x).val
             sx == RInt(SeqSum(x))
             sy == RInt(SeqSum(y))
             denominator == RMul(n, sxx)
         IN  IF denominator[1] = 0 THEN RegRaise("ZeroDivisionError")
             ELSE RegOk(RDiv(RSub(RMul(n, sxy), RMul(sx, sy)), denominator),
                        RDiv(RSub(RMul(sy, sxx), RMul(sx, sxy)), denominator))

\* a bug that answers a flat line through the origin for degenerate input
linear_regression_lenient(x, y) ==
    LET m == IF Len(x) <= Len(y) THEN Len(x) ELSE Len(y)
        xs == SubSeq(x, 1, m)
        ys == SubSeq(y, 1, m)
        n == RInt(m)
        sxy == sumProducts(xs, ys).val
        sxx == sumProducts(xs, xs).val
        sx == RInt(SeqSum(xs))
        sy == RInt(SeqSum(ys))
        denominator == RSub(RMul(n, sxx), RMul(sx, sx))
    IN  IF denominator[1] = 0 THEN RegOk(RInt(0), RInt(0))
        ELSE RegOk(RDiv(RSub(RMul(n, sxy), RMul(sx, sy)), denominator),
                   RDiv(RSub(RMul(sy, sxx), RMul(sx, sxy)), denominator))

linear_regression(x, y) ==
    IF Len(x) # Len(y) THEN RegRaise("ValueError")
    ELSE LET n == RInt(Len(x))
             sxy == sumProducts(x, y).val
             sxx == sumProducts(x, x).val
             sx == RInt(SeqSum(x))
             sy == RInt(SeqSum(y))
             \* len(xData) * sumProducts(xData, xData) - sum(xData) ** 2
             denominator == RSub(RMul(n, sxx), RMul(sx, sx))
         IN  IF denominator[1] = 0 THEN RegRaise("ZeroDivisionError")
             ELSE RegOk(RDiv(RSub(RMul(n, sxy), RMul(sx, sy)), denominator),
                        RDiv(RSub(RMul(sy, sxx), RMul(sx, sxy)), denominator))

MaxPoints == 3      \* longest generated regression input
MaxRegVal == 1      \* generated coordinates are -1..MaxRegVal

RegInputs == BoundedSeq(-1..MaxRegVal, MaxPoints) \cup {<<1, 2, 3>>, <<2, 4, 6>>}

LinearRegression ==
    /\ reg' = linear_regression(xData, yData)
    /\ UNCHANGED <<xData, yData>>
    /\ UNCHANGED <<statVars, graphVars, niceVars, mvdVars, chartVars>>

---------------------------------------------------------------------------
(* Graph: __init__ and set_dimensions *)

NoGraph ==
    [alive |-> FALSE, categoricalXAxis |-> FALSE,
     maxY |-> None, minY |-> None, maxX |-> None, minX |-> None,
     x |-> None, y |-> None, width |-> None, height |-> None,
     graphSize |-> None, borderWidth |-> None,
     effectiveX |-> None, effectiveY |-> None,
     effectiveWidth |-> None, effectiveHeight |-> None,
     graphX |-> None, graphY |-> None,
     graphWidth |-> None, graphHeight |-> None,
     originX |-> None, originY |-> None,
     xScale |-> None, yScale |-> None,
     dimensionsSet |-> FALSE]

Two == RInt(2)

\* set_dimensions(self, window): the fields after the call and how it ended.
\* A division by a zero range raises after the earlier fields were assigned.
set_dimensions_flipped(g, window) ==
    LET width == IF g.width # None THEN g.width ELSE RInt(window.width)
        height == IF g.height # None THEN g.height ELSE RInt(window.height)
        effectiveX == RAdd(g.x, g.borderWidth)
        effectiveY == RAdd(g.y, g.borderWidth)
        effectiveWidth == RSub(width, RMul(Two, g.borderWidth))
        effectiveHeight == RSub(height, RMul(Two, g.borderWidth))
        graphWidth == RMul(g.graphSize, effectiveWidth)
        graphHeight == RMul(g.graphSize, effectiveHeight)
        graphX == RAdd(effectiveX, RDiv(RSub(effectiveWidth, graphWidth), Two))
        graphY == RAdd(effectiveY, RDiv(RSub(effectiveHeight, graphHeight), Two))
        g1 == [g EXCEPT !.width = width, !.height = height,
                        !.effectiveX = effectiveX, !.effectiveY = effectiveY,
                        !.effectiveWidth = effectiveWidth,
                        !.effectiveHeight = effectiveHeight,
                        !.graphWidth = graphWidth, !.graphHeight = graphHeight,
                        !.graphX = graphX, !.graphY = graphY]
        xRange == RSub(g.maxX, g.minX)
        xScale == RDiv(graphWidth, xRange)
        g2 == IF g.categoricalXAxis THEN g1
              ELSE [g1 EXCEPT !.xScale = xScale,
                              !.originX = RSub(graphX, RMul(xScale, g.minX))]
        yRange == RSub(g.maxY, g.minY)
        yScale == RDiv(graphHeight, yRange)
    IN  IF ~g.categoricalXAxis /\ xRange[1] = 0
        THEN [status |-> "ZeroDivisionError", graph |-> g1]
        ELSE IF yRange[1] = 0
        THEN [status |-> "ZeroDivisionError", graph |-> g2]
        ELSE [status |-> "ok",
              graph |-> [g2 EXCEPT !.yScale = yScale,
                                   !.originY = RSub(graphY,
                                                    RMul(yScale, g.minY)),
                                   !.dimensionsSet = TRUE]]

set_dimensions(g, window) ==
    LET width == IF g.width # None THEN g.width ELSE RInt(window.width)
        height == IF g.height # None THEN g.height ELSE RInt(window.height)
        effectiveX == RAdd(g.x, g.borderWidth)
        effectiveY == RAdd(g.y, g.borderWidth)
        effectiveWidth == RSub(width, RMul(Two, g.borderWidth))
        effectiveHeight == RSub(height, RMul(Two, g.borderWidth))
        graphWidth == RMul(g.graphSize, effectiveWidth)
        graphHeight == RMul(g.graphSize, effectiveHeight)
        graphX == RAdd(effectiveX, RDiv(RSub(effectiveWidth, graphWidth), Two))
        graphY == RAdd(effectiveY, RDiv(RSub(effectiveHeight, graphHeight), Two))
        g1 == [g EXCEPT !.width = width, !.height = height,
                        !.effectiveX = effectiveX, !.effectiveY = effectiveY,
                        !.effectiveWidth = effectiveWidth,
                        !.effectiveHeight = effectiveHeight,
                        !.graphWidth = graphWidth, !.graphHeight = graphHeight,
                        !.graphX = graphX, !.graphY = graphY]
        xRange == RSub(g.maxX, g.minX)
        xScale == RDiv(graphWidth, xRange)
        g2 == IF g.categoricalXAxis THEN g1
              ELSE [g1 EXCEPT !.xScale = xScale,
                              !.originX = RSub(graphX, RMul(xScale, g.minX))]
        yRange == RSub(g.maxY, g.minY)
        yScale == RDiv(graphHeight, yRange)
    IN  IF ~g.categoricalXAxis /\ xRange[1] = 0
        THEN [status |-> "ZeroDivisionError", graph |-> g1]
        ELSE IF yRange[1] = 0
        THEN [status |-> "ZeroDivisionError", graph |-> g2]
        ELSE [status |-> "ok",
              graph |-> [g2 EXCEPT !.yScale = yScale,
                                   !.originY = RAdd(RAdd(graphY, graphHeight),
                                                    RMul(yScale, g.minY)),
                                   !.dimensionsSet = TRUE]]

\* pygame.Surface((0, 0)), the window __init__ hands to set_dimensions
EmptySurface == [width |-> 0, height |-> 0]

\* Graph.__init__(maxY, categoricalXAxis, maxX, minY, minX, ..., x, y, width,
\* height, graphSize, borderWidth, ...)
Graph(a) ==
    LET g == [NoGraph EXCEPT !.alive = TRUE,
                             !.categoricalXAxis = a.categoricalXAxis,
                             !.maxY = RInt(a.maxY), !.minY = RInt(a.minY),
                             !.maxX = RInt(a.maxX), !.minX = RInt(a.minX),
                             !.x = RInt(a.x), !.y = RInt(a.y),
                             !.width = a.width, !.height = a.height,
                             !.graphSize = a.graphSize,
                             !.borderWidth = RInt(a.borderWidth)]
        r == set_dimensions(g, EmptySurface)
    IN  IF ~a.categoricalXAxis /\ a.maxX = 0
        THEN [status |-> "ValueError", graph |-> NoGraph]
        ELSE IF a.width # None /\ a.height # None
        THEN IF r.status = "ok" THEN r
             ELSE [status |-> r.status, graph |-> NoGraph]
        ELSE [status |-> "ok", graph |-> g]

\* the pixel a data value is drawn at (Scatterplot.draw)
PixelX(g, v) == RAdd(g.originX, RMul(v, g.xScale))
PixelY(g, v) == RSub(g.originY, RMul(v, g.yScale))

MaxAxis == 1        \* axis limits are -1..MaxAxis
Px == 8             \* a chart is Px wide and 2 Px high, a window 0 or Px

AxisLimits == -1..MaxAxis
PixelSizes == {0, Px}
Windows == [width : PixelSizes, height : PixelSizes]

\* graphSize: the default 0.75, and 0.5
GraphSizes == {Rat(3, 4), Rat(1, 2)}

GraphArgs ==
    [categoricalXAxis : BOOLEAN,
     maxY : AxisLimits, minY : AxisLimits,
     maxX : AxisLimits, minX : AxisLimits,
     x : {0}, y : {1},
     width : {None, RInt(Px)}, height : {None, RInt(2 * Px)},
     graphSize : GraphSizes, borderWidth : {0, 1}]

NoGraphCall == [op |-> "none", status |-> "none"]

NewGraph ==
    /\ gstatus = "new"
    /\ LET r == Graph(graphArgs)
       IN  /\ graph' = r.graph
           /\ gstatus' = r.status
    /\ gcall' = [op |-> "__init__", status |-> gstatus']
    /\ UNCHANGED graphArgs
    /\ UNCHANGED <<statVars, regVars, niceVars, mvdVars, chartVars>>

SetDimensions ==
    /\ gstatus = "ok"
    /\ \E window \in Windows :
          LET r == set_dimensions(graph, window)
          IN  /\ graph' = r.graph
              /\ gcall' = [op |-> "set_dimensions", status |-> r.status]
    /\ UNCHANGED <<graphArgs, gstatus>>
    /\ UNCHANGED <<statVars, regVars, niceVars, mvdVars, chartVars>>

---------------------------------------------------------------------------
(* next_lowest_decimultiple(upperBound, multiples) *)

RECURSIVE IntPow10(_)
IntPow10(p) == IF p = 0 THEN 1 ELSE 10 * IntPow10(p - 1)

\* 10 ** powerOfTen
Pow10(p) == IF p >= 0 THEN RInt(IntPow10(p)) ELSE Rat(1, IntPow10(-p))

\* math.floor(math.log10(r)), for r > 0
RECURSIVE FloorLog10(_)
FloorLog10(r) ==
    IF RLe(RInt(10), r) THEN FloorLog10(RDiv(r, RInt(10))) + 1
    ELSE IF RLt(r, RInt(1)) THEN FloorLog10(RMul(r, RInt(10))) - 1
    ELSE 0

\* list.sort(reverse=True)
RECURSIVE Reverse(_)
Reverse(s) == IF s = <<>> THEN <<>> ELSE Reverse(Tail(s)) \o <<Head(s)>>

SortDescending(s) == Reverse(Sort(s))

\* for number in multiples: if upperBound >= number: the first such number,
\* and 1 when there is none
RECURSIVE FirstAtMost(_, _)
FirstAtMost(multiples, scaled) ==
    IF multiples = <<>> THEN 1
    ELSE IF RLe(RInt(Head(multiples)), scaled) THEN Head(multiples)
    ELSE FirstAtMost(Tail(multiples), scaled)

\* a bug that sorts the multiples ascending
next_lowest_decimultiple_ascending(upperBound, multiples) ==
    IF ~RLt(RInt(0), upperBound) THEN Raise("ValueError")
    ELSE LET powerOfTen == FloorLog10(upperBound)
             scaled == RDiv(upperBound, Pow10(powerOfTen))
             decimultiple == FirstAtMost(Sort(multiples), scaled)
         IN  Ok(RMul(RInt(decimultiple), Pow10(powerOfTen)))

next_lowest_decimultiple(upperBound, multiples) ==
    \* math.log10 raises ValueError unless its argument is > 0
    IF ~RLt(RInt(0), upperBound) THEN Raise("ValueError")
    ELSE LET powerOfTen == FloorLog10(upperBound)
             scaled == RDiv(upperBound, Pow10(powerOfTen))
             decimultiple == FirstAtMost(SortDescending(multiples), scaled)
         IN  Ok(RMul(RInt(decimultiple), Pow10(powerOfTen)))

\* the multiples Graph.draw passes
OneTwoFive == <<1, 2, 5>>

MaxNum == 40        \* raw intervals are n / d for n in -1..MaxNum

Denominators == {1, 3, 40, 1000}
RawIntervals == {Rat(n, d) : n \in -1..MaxNum, d \in Denominators}

NoInterval == [status |-> "none", val |-> None]

NextLowestDecimultiple ==
    /\ interval' = next_lowest_decimultiple(rawInterval, OneTwoFive)
    /\ UNCHANGED rawInterval
    /\ UNCHANGED <<statVars, regVars, graphVars, mvdVars, chartVars>>

---------------------------------------------------------------------------
(* DiscreteData: the other methods, and the caller changing its list *)

\* DiscreteData.max / DiscreteData.min: max() of an empty list raises
DiscreteData_max(o) ==
    IF o.data = <<>> THEN Raise("ValueError") ELSE Ok(RInt(SeqMax(o.data)))

DiscreteData_min(o) ==
    IF o.data = <<>> THEN Raise("ValueError") ELSE Ok(RInt(SeqMin(o.data)))

getValue(o, index) ==
    IF InRange(o.data, index) THEN Ok(RInt(PyAt(o.data, index)))
    ELSE Raise("IndexError")

getData(o) == Ok(o.data)

\* a bug that keeps the median up to date with the list
WithList_recomputed(o, list) ==
    [o EXCEPT !.data = list, !.median = median(list).val]

\* self.data = data stores the caller's list itself, not a copy: after the
\* caller changes the list, the object's data is the changed list and its
\* other fields are what __init__ set.
WithList(o, list) == [o EXCEPT !.data = list]

MaxPts == 3         \* longest list of the data model's inputs

DataPoints == {0, 1}
SmallDatasets == BoundedSeq(DataPoints, MaxPts)

\* what list.append, item assignment and list.pop can make of a list
Mutations(list) ==
    {Append(list, v) : v \in IF Len(list) < MaxPts THEN DataPoints ELSE {}}
        \cup {[list EXCEPT ![i] = v] : i \in 1..Len(list), v \in DataPoints}
        \cup (IF list = <<>> THEN {} ELSE {SubSeq(list, 1, Len(list) - 1)})

Max ==
    /\ obj.alive
    /\ last' = Called("max", DiscreteData_max(obj))
    /\ UNCHANGED <<values, obj, box>>
    /\ UNCHANGED <<regVars, graphVars, niceVars, mvdVars, chartVars>>

Min ==
    /\ obj.alive
    /\ last' = Called("min", DiscreteData_min(obj))
    /\ UNCHANGED <<values, obj, box>>
    /\ UNCHANGED <<regVars, graphVars, niceVars, mvdVars, chartVars>>

GetValue ==
    /\ obj.alive
    /\ \E index \in (-1)..MaxPts :
          last' = Called("getValue", getValue(obj, index))
    /\ UNCHANGED <<values, obj, box>>
    /\ UNCHANGED <<regVars, graphVars, niceVars, mvdVars, chartVars>>

GetData ==
    /\ obj.alive
    /\ last' = Called("getData", getData(obj))
    /\ UNCHANGED <<values, obj, box>>
    /\ UNCHANGED <<regVars, graphVars, niceVars, mvdVars, chartVars>>

\* the caller changes the list it built the object of
MutateValues ==
    /\ \E list \in Mutations(values) :
          /\ values' = list
          /\ obj' = IF obj.alive THEN WithList(obj, list) ELSE obj
    /\ last' = [op |-> "mutate", status |-> "ok", val |-> None]
    /\ UNCHANGED box
    /\ UNCHANGED <<regVars, graphVars, niceVars, mvdVars, chartVars>>

---------------------------------------------------------------------------
(* MultivariableDiscreteData *)

NoMvd == [alive |-> FALSE, title |-> "", numDimensions |-> 0, data |-> <<>>,
          numPoints |-> 0]

NoDataMsg == "No data was entered."
DimensionsMsg == "Multivariable Data must have at least two dimensions."
MismatchMsg == "Data length mismatch."

MvdRaise(e, msg) == [status |-> e, msg |-> msg, mvd |-> NoMvd]

\* a bug that lets a single series through
MultivariableDiscreteData_single(data) ==
    IF Len(data) = 0 THEN MvdRaise("ValueError", NoDataMsg)
    ELSE IF \E i \in 1..Len(data) : data[i].size # data[1].size
    THEN MvdRaise("ValueError", MismatchMsg)
    ELSE [status |-> "ok", msg |-> "",
          mvd |-> [alive |-> TRUE, title |-> "", numDimensions |-> Len(data),
                   data |-> data, numPoints |-> data[1].size]]

\* a bug that compares only the second series with the first
MultivariableDiscreteData_first_two(data) ==
    IF Len(data) = 0 THEN MvdRaise("ValueError", NoDataMsg)
    ELSE IF Len(data) < 2 THEN MvdRaise("ValueError", DimensionsMsg)
    ELSE IF data[2].size # data[1].size
    THEN MvdRaise("ValueError", MismatchMsg)
    ELSE [status |-> "ok", msg |-> "",
          mvd |-> [alive |-> TRUE, title |-> "", numDimensions |-> Len(data),
                   data |-> data, numPoints |-> data[1].size]]

\* MultivariableDiscreteData(*data): data is the tuple of DiscreteData objects
MultivariableDiscreteData(data) ==
    IF Len(data) = 0 THEN MvdRaise("ValueError", NoDataMsg)
    ELSE IF Len(data) < 2 THEN MvdRaise("ValueError", DimensionsMsg)
    ELSE IF \E i \in 1..Len(data) : data[i].size # data[1].size
    THEN MvdRaise("ValueError", MismatchMsg)
    ELSE [status |-> "ok", msg |-> "",
          mvd |-> [alive |-> TRUE, title |-> "", numDimensions |-> Len(data),
                   data |-> data, numPoints |-> data[1].size]]

\* a bug that lists the points from the last to the first
get_points_list_reversed(m) ==
    IF \E j \in 0..(m.numPoints - 1), i \in 1..m.numDimensions :
          ~InRange(m.data[i].data, j)
    THEN Raise("IndexError")
    ELSE Ok([j \in 1..m.numPoints |->
                [i \in 1..m.numDimensions |->
                    getValue(m.data[i], m.numPoints - j).val]])

\* one tuple for each point, its i-th component the j-th value of series i
get_points_list(m) ==
    IF \E j \in 0..(m.numPoints - 1), i \in 1..m.numDimensions :
          ~InRange(m.data[i].data, j)
    THEN Raise("IndexError")
    ELSE Ok([j \in 1..m.numPoints |->
                [i \in 1..m.numDimensions |-> getValue(m.data[i], j - 1).val]])

set_labels(m, labels) ==
    IF Len(labels) # m.numDimensions
    THEN [status |-> "ValueError", mvd |-> m]
    ELSE [status |-> "ok",
          mvd |-> [m EXCEPT !.data =
                      [i \in 1..Len(m.data) |->
                          IF labels[i] # ""
                          THEN [m.data[i] EXCEPT !.label = labels[i]]
                          ELSE m.data[i]]]]

Mvd_max(m, datasetNum) ==
    IF InRange(m.data, datasetNum)
    THEN DiscreteData_max(PyAt(m.data, datasetNum))
    ELSE Raise("IndexError")

Mvd_min(m, datasetNum) ==
    IF InRange(m.data, datasetNum)
    THEN DiscreteData_min(PyAt(m.data, datasetNum))
    ELSE Raise("IndexError")

Mvd_getData(m, datasetNum) ==
    IF InRange(m.data, datasetNum)
    THEN getData(PyAt(m.data, datasetNum))
    ELSE Raise("IndexError")

MaxSeriesLen == 2   \* longest series of the point-series inputs

SeriesCounts == 0..3
SeriesLists == BoundedSeq({0, 1}, MaxSeriesLen)
SeriesInputs == UNION {[1..k -> SeriesLists] : k \in SeriesCounts}
LabelInputs == UNION {[1..k -> {"", "x"}] : k \in 2..3}
DatasetNums == (-1)..3

NoMCall == [op |-> "none", status |-> "none", msg |-> "", val |-> None]
MCalled(op, r) == [op |-> op, status |-> r.status, msg |-> "", val |-> r.val]

\* MultivariableDiscreteData(DiscreteData(s1), DiscreteData(s2), ...): the
\* arguments are built first, so a series that cannot be built (an empty
\* list) ends the call before the constructor runs
NewMultivariableDiscreteData ==
    /\ mcall.op = "none"
    /\ LET built == [i \in 1..Len(series) |-> DiscreteData(series[i])]
           failed == {i \in 1..Len(series) : built[i].status # "ok"}
           r == MultivariableDiscreteData(
                    [i \in 1..Len(series) |-> built[i].obj])
       IN  IF failed # {}
           THEN /\ mcall' = [op |-> "__init__",
                             status |-> built[SetMin(failed)].status,
                             msg |-> "", val |-> None]
                /\ mvd' = NoMvd
           ELSE /\ mcall' = [op |-> "__init__", status |-> r.status,
                             msg |-> r.msg, val |-> None]
                /\ mvd' = r.mvd
    /\ UNCHANGED series
    /\ UNCHANGED <<statVars, regVars, graphVars, niceVars, chartVars>>

GetPointsList ==
    /\ mvd.alive
    /\ mcall' = MCalled("get_points_list", get_points_list(mvd))
    /\ UNCHANGED <<series, mvd>>
    /\ UNCHANGED <<statVars, regVars, graphVars, niceVars, chartVars>>

SetLabels ==
    /\ mvd.alive
    /\ \E labels \in LabelInputs :
          LET r == set_labels(mvd, labels)
          IN  /\ mvd' = r.mvd
              /\ mcall' = [op |-> "set_labels", status |-> r.status,
                           msg |-> "", val |-> None]
    /\ UNCHANGED series
    /\ UNCHANGED <<statVars, regVars, graphVars, niceVars, chartVars>>

MvdMax ==
    /\ mvd.alive
    /\ \E datasetNum \in DatasetNums :
          mcall' = MCalled("max", Mvd_max(mvd, datasetNum))
    /\ UNCHANGED <<series, mvd>>
    /\ UNCHANGED <<statVars, regVars, graphVars, niceVars, chartVars>>

MvdMin ==
    /\ mvd.alive
    /\ \E datasetNum \in DatasetNums :
          mcall' = MCalled("min", Mvd_min(mvd, datasetNum))
    /\ UNCHANGED <<series, mvd>>
    /\ UNCHANGED <<statVars, regVars, graphVars, niceVars, chartVars>>

MvdGetData ==
    /\ mvd.alive
    /\ \E datasetNum \in DatasetNums :
          mcall' = MCalled("getData", Mvd_getData(mvd, datasetNum))
    /\ UNCHANGED <<series, mvd>>
    /\ UNCHANGED <<statVars, regVars, graphVars, niceVars, chartVars>>

---------------------------------------------------------------------------
(* Colours, and the draw commands a chart sends to pygame *)

valid_rgb_colour(colour) ==
    /\ Len(colour) = 3
    /\ \A i \in 1..Len(colour) : 0 <= colour[i] /\ colour[i] <= 255

\* for a colour of three components or more
complementary(colour) == <<255 - colour[1], 255 - colour[2], 255 - colour[3]>>

White == <<255, 255, 255>>
Black == <<0, 0, 0>>
Grey == <<100, 100, 100>>

\* a colour as pygame receives it; the components of a box's line colour
\* are halves, so every component is kept as a number of the exact arithmetic
Paint(colour) == [i \in 1..Len(colour) |-> RInt(colour[i])]

\* an optional argument or entry: Nothing for None, Just(v) for the value v,
\* so that no colour, whatever its components, is taken for None
Nothing == <<>>
Just(list) == <<list>>

\* ((0 + colour[0]) / 2, (0 + colour[1]) / 2, (0 + colour[2]) / 2)
LineColour(colour) == [i \in 1..3 |-> Rat(colour[i], 2)]

\* one call of pygame.draw.rect / line / circle or of draw_text: what is
\* drawn, for which part of the chart, in which colour, for which mark or
\* dataset, at which pixel, and the text of a title or label.  The digits
\* of a mark's number are not part of the model: kind "number" is the
\* draw_text call of the mark it belongs to.
Cmd(kind, part, colour, index, pos, text) ==
    [kind |-> kind, part |-> part, colour |-> colour, index |-> index,
     pos |-> pos, text |-> text]

Half == Rat(1, 2)

\* a local variable: v is computed once and Body goes on with its value
With(v, Body(_)) == CHOOSE r \in {Body(x) : x \in {v}} : TRUE

\* math.floor
Floor(r) == r[1] \div r[2]

---------------------------------------------------------------------------
(* Graph.draw(window): the frame and the axis marks *)

\* a bug that refits the chart to the window of every draw call
EnsureDimensions_refit(g, window) ==
    set_dimensions([g EXCEPT !.width = None, !.height = None], window)

\* if not self.dimensionsSet: self.set_dimensions(window)
EnsureDimensions(g, window) ==
    IF ~g.dimensionsSet THEN set_dimensions(g, window)
    ELSE [status |-> "ok", graph |-> g]

\* drawBorderAndBackground, the two axes, the title and the axis labels
Frame(c, g) ==
    LET bottom == RAdd(g.graphY, g.graphHeight)
        marginX == RSub(g.effectiveWidth, g.graphWidth)
        marginY == RSub(g.effectiveHeight, g.graphHeight)
        primary == Paint(c.primaryColour)
    IN  <<Cmd("rect", "border", Paint(c.borderColour), 0, <<g.x, g.y>>, ""),
          Cmd("rect", "background", Paint(c.bgColour), 0,
              <<g.effectiveX, g.effectiveY>>, ""),
          Cmd("line", "xaxis", primary, 0, <<g.graphX, bottom>>, ""),
          Cmd("line", "yaxis", primary, 0, <<g.graphX, bottom>>, ""),
          Cmd("text", "title", primary, 0,
              <<RAdd(g.effectiveX, RDiv(g.effectiveWidth, Two)),
                RAdd(g.effectiveY, RDiv(marginY, RInt(4)))>>, c.title)>>
        \o (IF c.showXAxisLabel
            THEN <<Cmd("text", "xlabel", primary, 0,
                       <<RAdd(g.graphX, RDiv(g.graphWidth, Two)),
                         RAdd(bottom, RMul(Rat(35, 100), marginY))>>,
                       c.xAxisLabel)>>
            ELSE <<>>)
        \o (IF c.showYAxisLabel
            THEN <<Cmd("text", "ylabel", primary, 0,
                       <<RSub(g.graphX, RMul(Rat(35, 100), marginX)),
                         RAdd(g.graphY, RDiv(g.graphHeight, Two))>>,
                       c.yAxisLabel)>>
            ELSE <<>>)

\* The marks are planned in doubles.  Two different numbers of this model
\* lie further apart than the roundings of a few operations can move them,
\* so the doubles decide a comparison only where the exact numbers are
\* equal, and a floor only where the exact number is whole.

\* self.graphWidth ("x") or self.graphHeight ("y"): graphSize * effective
FDimension(g, axis) ==
    FMul(FromRat(g.graphSize),
         FromRat(IF axis = "x" THEN g.effectiveWidth ELSE g.effectiveHeight))

\* self.xScale or self.yScale: dimension / (max - min)
FScale(g, axis) ==
    FDiv(FDimension(g, axis),
         FromRat(IF axis = "x" THEN RSub(g.maxX, g.minX)
                 ELSE RSub(g.maxY, g.minY)))

\* what next_lowest_decimultiple returned for the interval delta:
\* decimultiple * (10 ** powerOfTen), an int for powerOfTen >= 0
FDelta(delta) ==
    IF RIsInt(delta) THEN FInt(delta[1])
    ELSE FMul(FInt(RMul(delta, Pow10(-FloorLog10(delta)))[1]),
              FromRat(Pow10(FloorLog10(delta))))

\* xAxisLabelSpacing or yAxisLabelSpacing: scale * delta
FSpacing(g, axis, delta) == FMul(FScale(g, axis), FDelta(delta))

Dimension(g, axis) == IF axis = "x" THEN g.graphWidth ELSE g.graphHeight
Scale(g, axis) == IF axis = "x" THEN g.xScale ELSE g.yScale

\* a number that a double holds exactly: its denominator is a power of two
Dyadic(a) == \E k \in 0..30 : a[2] = 2^k

\* no operation that leads to the spacing rounds: graphSize, the dimension
\* and the scale are held exactly, and so is the spacing, the product of
\* the scale and a whole interval
SpacingIsExact(g, axis, spacing) ==
    /\ Dyadic(g.graphSize)
    /\ Dyadic(IF axis = "x" THEN g.effectiveWidth ELSE g.effectiveHeight)
    /\ Dyadic(Dimension(g, axis))
    /\ Dyadic(Scale(g, axis))
    /\ RIsInt(RDiv(spacing, Scale(g, axis)))
    /\ Dyadic(spacing)

\* whether the doubles put the one offset that equals the dimension, that
\* of mark or half mark dimension / spacing, within the dimension:
\* labelNum * spacing <= dimension, or (labelNum + 0.5) * spacing <= dimension
AtFarEdge(g, axis, spacing) ==
    IF /\ spacing # RInt(0)
       /\ RIsInt(RMul(Two, RDiv(Dimension(g, axis), spacing)))
       /\ ~SpacingIsExact(g, axis, spacing)
    THEN FLe(FMul(FromRat(RDiv(Dimension(g, axis), spacing)),
                  FSpacing(g, axis, RDiv(spacing, Scale(g, axis)))),
             FDimension(g, axis))
    ELSE TRUE

\* while labelNum * spacing <= dimension, with factor = labelNum, and
\* if (labelNum + 0.5) * spacing <= dimension, with factor = labelNum + 0.5
WithinAxis(factor, spacing, dimension, edge) ==
    IF RMul(factor, spacing) = dimension THEN edge
    ELSE RLt(RMul(factor, spacing), dimension)

\* the labelNum at which a while loop over the marks that began at start
\* ends: the first one whose offset is not within the dimension
LoopEnd(spacing, dimension, edge, start) ==
    CHOOSE n \in start..(IF Floor(RDiv(dimension, spacing)) + 1 > start
                         THEN Floor(RDiv(dimension, spacing)) + 1
                         ELSE start) :
        /\ ~WithinAxis(RInt(n), spacing, dimension, edge)
        /\ \A m \in start..(n - 1) :
              WithinAxis(RInt(m), spacing, dimension, edge)

\* passes[lo] \o ... \o passes[hi]: what the passes of a loop drew
RECURSIVE Concat(_, _, _)
Concat(passes, lo, hi) ==
    IF lo > hi THEN <<>>
    ELSE IF lo = hi THEN passes[lo]
    ELSE Concat(passes, lo, (lo + hi) \div 2)
             \o Concat(passes, (lo + hi) \div 2 + 1, hi)

\* one pass of the loop of the x marks: mark labelNum, its number, and its
\* half mark if that is within the axis
XMark(g, primary, spacing, axisMarkLength, edge, labelNum) ==
    LET markPosition == RAdd(g.graphX, RMul(RInt(labelNum), spacing))
        bottom == RAdd(g.graphY, g.graphHeight)
        marginY == RSub(g.effectiveHeight, g.graphHeight)
        main == <<Cmd("line", "xmark", primary, labelNum,
                      <<markPosition, RSub(bottom, axisMarkLength)>>, ""),
                  Cmd("number", "xnumber", primary, labelNum,
                      <<markPosition, RAdd(bottom, RDiv(marginY, RInt(6)))>>,
                      "")>>
        half == IF WithinAxis(RAdd(RInt(labelNum), Half), spacing,
                              g.graphWidth, edge)
                THEN <<Cmd("line", "xhalf", primary, labelNum,
                           <<RAdd(markPosition, RMul(Half, spacing)),
                             RSub(bottom, RDiv(axisMarkLength, Two))>>, "")>>
                ELSE <<>>
    IN  main \o half

\* the while loop of the x marks, from labelNum on
XMarks(g, primary, spacing, axisMarkLength, edge, labelNum) ==
    With(LoopEnd(spacing, g.graphWidth, edge, labelNum), LAMBDA end :
        With([n \in 1..(end - labelNum) |->
                 XMark(g, primary, spacing, axisMarkLength, edge,
                       labelNum + n - 1)],
             LAMBDA passes : Concat(passes, 1, end - labelNum)))

\* one pass of the loop of the y marks
YMark(g, primary, spacing, axisMarkLength, edge, labelNum) ==
    LET markPosition == RSub(RAdd(g.graphY, g.graphHeight),
                             RMul(RInt(labelNum), spacing))
        marginX == RSub(g.effectiveWidth, g.graphWidth)
        main == <<Cmd("line", "ymark", primary, labelNum,
                      <<RSub(g.graphX, axisMarkLength), markPosition>>, ""),
                  Cmd("number", "ynumber", primary, labelNum,
                      <<RSub(g.graphX, RDiv(marginX, RInt(6))), markPosition>>,
                      "")>>
        half == IF WithinAxis(RAdd(RInt(labelNum), Half), spacing,
                              g.graphHeight, edge)
                THEN <<Cmd("line", "yhalf", primary, labelNum,
                           <<RSub(g.graphX, RDiv(axisMarkLength, Two)),
                             RSub(markPosition, RMul(Half, spacing))>>, "")>>
                ELSE <<>>
    IN  main \o half

\* the while loop of the y marks, from labelNum on
YMarks(g, primary, spacing, axisMarkLength, edge, labelNum) ==
    With(LoopEnd(spacing, g.graphHeight, edge, labelNum), LAMBDA end :
        With([n \in 1..(end - labelNum) |->
                 YMark(g, primary, spacing, axisMarkLength, edge,
                       labelNum + n - 1)],
             LAMBDA passes : Concat(passes, 1, end - labelNum)))

\* math.floor(self.axisMarkerDensity * dimension)
ApproxNum(density, g, axis) ==
    IF RIsInt(RMul(density, Dimension(g, axis)))
    THEN FFloor(FMul(FromRat(density), FDimension(g, axis)))
    ELSE Floor(RMul(density, Dimension(g, axis)))

\* pixels between two marks of an axis:
\*   approxNum = math.floor(axisMarkerDensity * dimension)
\*   delta = next_lowest_decimultiple((max - min) / approxNum, [1, 2, 5])
\*   spacing = scale * delta
MarkSpacing(density, g, axis, range) ==
    With(ApproxNum(density, g, axis), LAMBDA approxNum :
        IF approxNum = 0 THEN Raise("ZeroDivisionError")
        ELSE With(next_lowest_decimultiple(RDiv(range, RInt(approxNum)),
                                           OneTwoFive),
                  LAMBDA delta :
                      IF delta.status # "ok" THEN delta
                      ELSE Ok(RMul(Scale(g, axis), delta.val))))

Drawn(status, cmds) == [status |-> status, cmds |-> cmds]

\* the labels of a categorical x axis (a BoxplotGraph always has its list of
\* labels), or the marks of a numerical one
XAxisMarks(c, g, axisMarkLength) ==
    LET primary == Paint(c.primaryColour)
        bottom == RAdd(g.graphY, g.graphHeight)
        marginY == RSub(g.effectiveHeight, g.graphHeight)
        n == Len(c.xCategoricalLabels)
        deltaLabel == RDiv(g.graphWidth, RInt(n))
    IN  IF g.categoricalXAxis
        THEN IF n = 0 THEN Drawn("ZeroDivisionError", <<>>)
             ELSE Drawn("ok",
                        [i \in 1..n |->
                            Cmd("text", "category", primary, i - 1,
                                <<RAdd(g.graphX,
                                       RMul(RAdd(RInt(i - 1), Half),
                                            deltaLabel)),
                                  RAdd(bottom, RDiv(marginY, RInt(6)))>>,
                                c.xCategoricalLabels[i])])
        ELSE With(MarkSpacing(c.axisMarkerDensity, g, "x",
                              RSub(g.maxX, g.minX)),
                  LAMBDA spacing :
                      IF spacing.status # "ok"
                      THEN Drawn(spacing.status, <<>>)
                      ELSE With(AtFarEdge(g, "x", spacing.val), LAMBDA edge :
                               Drawn("ok", XMarks(g, primary, spacing.val,
                                                  axisMarkLength, edge, 0))))

YAxisMarks(c, g, axisMarkLength) ==
    With(MarkSpacing(c.axisMarkerDensity, g, "y", RSub(g.maxY, g.minY)),
         LAMBDA spacing :
             IF spacing.status # "ok" THEN Drawn(spacing.status, <<>>)
             ELSE With(AtFarEdge(g, "y", spacing.val), LAMBDA edge :
                      Drawn("ok", YMarks(g, Paint(c.primaryColour),
                                         spacing.val, axisMarkLength, edge,
                                         0))))

\* Graph.draw(window) of chart c: the outcome, the geometry afterwards and
\* the commands sent to pygame before it returned or raised
Graph_draw(c, window) ==
    With(EnsureDimensions(c.g, window), LAMBDA d :
        IF d.status # "ok"
        THEN [status |-> d.status, g |-> d.graph, cmds |-> <<>>]
        ELSE With([g |-> d.graph,
                   axisMarkLength |->
                       RMul(Rat(5, 1000),
                            RAdd(d.graph.graphHeight, d.graph.graphWidth))],
                  LAMBDA v :
            With(XAxisMarks(c, v.g, v.axisMarkLength), LAMBDA xm :
                IF xm.status # "ok"
                THEN [status |-> xm.status, g |-> v.g,
                      cmds |-> Frame(c, v.g) \o xm.cmds]
                ELSE With(YAxisMarks(c, v.g, v.axisMarkLength), LAMBDA ym :
                         [status |-> ym.status, g |-> v.g,
                          cmds |-> Frame(c, v.g) \o xm.cmds \o ym.cmds]))))

---------------------------------------------------------------------------
(* BoxplotGraph and Scatterplot *)

NoChart == [alive |-> FALSE, kind |-> "none", data |-> <<>>,
            numDatasets |-> 0, colours |-> <<>>, bgColour |-> White,
            primaryColour |-> Black, borderColour |-> Black, title |-> "",
            xAxisLabel |-> "", yAxisLabel |-> "", showXAxisLabel |-> TRUE,
            showYAxisLabel |-> TRUE, xCategoricalLabels |-> <<>>,
            axisMarkerDensity |-> None, bestFitLines |-> <<>>,
            mainBestFitLine |-> FALSE, printBestFitInfo |-> FALSE,
            yLabel |-> Nothing, g |-> NoGraph]

ChartRaise(e) == [status |-> e, chart |-> NoChart]

\* the arguments the chart classes hand to Graph.__init__
GraphArgsOf(a, categoricalXAxis, maxY, maxX, minY, minX) ==
    [categoricalXAxis |-> categoricalXAxis, maxY |-> maxY, minY |-> minY,
     maxX |-> maxX, minX |-> minX, x |-> a.x, y |-> a.y, width |-> a.width,
     height |-> a.height, graphSize |-> a.graphSize,
     borderWidth |-> a.borderWidth]

\* BoxplotGraph(*data, width=, height=, bgColour=, primaryColour=, colours=,
\* borderColour=, axisMarkerDensity=, ...), maxY and minY left to default
BoxplotGraph(data, a) ==
    LET numDatasets == Len(data)
        maxima == [i \in 1..numDatasets |-> DiscreteData_max(data[i])]
        minima == [i \in 1..numDatasets |-> DiscreteData_min(data[i])]
        maxY == SeqMax([i \in 1..numDatasets |-> maxima[i].val[1]])
        minY == SeqMin([i \in 1..numDatasets |-> minima[i].val[1]])
        given == IF a.primaryColour # Nothing THEN a.primaryColour[1]
                 ELSE complementary(a.bgColour)
        primaryColour == IF given = Black THEN Grey ELSE given
        colours == IF a.colours # Nothing THEN a.colours[1]
                   ELSE [i \in 1..numDatasets |-> Just(primaryColour)]
        \* the argument primaryColour, which may be None
        borderColour == IF a.borderColour # Nothing THEN a.borderColour
                        ELSE a.primaryColour
    IN  \* max() of no values, of the maxima or of a dataset's own values
        IF numDatasets = 0 \/ \E i \in 1..numDatasets : data[i].data = <<>>
        THEN ChartRaise("ValueError")
        \* complementary(self.bgColour) reads bgColour[0], [1] and [2]
        ELSE IF a.primaryColour = Nothing /\ Len(a.bgColour) < 3
        THEN ChartRaise("IndexError")
        ELSE With(Graph(GraphArgsOf(a, TRUE, maxY, 0, minY, 0)), LAMBDA base :
            IF base.status # "ok" THEN ChartRaise(base.status)
            ELSE [status |-> "ok",
                  chart |-> [NoChart EXCEPT
                      !.alive = TRUE, !.kind = "BoxplotGraph", !.data = data,
                      !.numDatasets = numDatasets, !.colours = colours,
                      !.bgColour = a.bgColour, !.primaryColour = primaryColour,
                      \* Graph.__init__: borderColour, else
                      \* complementary(bgColour)
                      !.borderColour = IF borderColour # Nothing
                                       THEN borderColour[1]
                                       ELSE complementary(a.bgColour),
                      !.xCategoricalLabels =
                          [i \in 1..numDatasets |-> data[i].label],
                      !.axisMarkerDensity = a.axisMarkerDensity,
                      !.g = base.graph]])

\* Scatterplot(*data, width=, height=, bgColour=, primaryColour=,
\* borderColour=, colours=, axisMarkerDensity=, bestFitLines=,
\* mainBestFitLine=, ...), the axis limits left to default
Scatterplot(data, a) ==
    LET numDatasets == Len(data)
        limit(m, d) == [i \in 1..numDatasets |->
                           IF m = "max" THEN Mvd_max(data[i], d)
                           ELSE Mvd_min(data[i], d)]
        maxX == SeqMax([i \in 1..numDatasets |-> limit("max", 0)[i].val[1]])
        maxY == SeqMax([i \in 1..numDatasets |-> limit("max", 1)[i].val[1]])
        minX == SeqMin([i \in 1..numDatasets |-> limit("min", 0)[i].val[1]])
        minY == SeqMin([i \in 1..numDatasets |-> limit("min", 1)[i].val[1]])
        primaryColour == IF a.primaryColour # Nothing THEN a.primaryColour[1]
                         ELSE complementary(a.bgColour)
        borderColour == IF a.borderColour # Nothing THEN a.borderColour[1]
                        ELSE primaryColour
        colours == IF a.colours # Nothing THEN a.colours[1]
                   ELSE [i \in 1..numDatasets |-> Just(primaryColour)]
    IN  IF \E i \in 1..numDatasets : data[i].numDimensions # 2
        THEN ChartRaise("ValueError")
        \* max() of no values
        ELSE IF numDatasets = 0 THEN ChartRaise("ValueError")
        ELSE IF \E i \in 1..numDatasets, d \in {0, 1} :
                    \/ limit("max", d)[i].status # "ok"
                    \/ limit("min", d)[i].status # "ok"
        THEN ChartRaise("ValueError")
        \* complementary(bgColour) reads bgColour[0], [1] and [2]
        ELSE IF a.primaryColour = Nothing /\ Len(a.bgColour) < 3
        THEN ChartRaise("IndexError")
        ELSE With(Graph(GraphArgsOf(a, FALSE, maxY, maxX, minY, minX)),
                  LAMBDA base :
            IF base.status # "ok" THEN ChartRaise(base.status)
            ELSE [status |-> "ok",
                  chart |-> [NoChart EXCEPT
                      !.alive = TRUE, !.kind = "Scatterplot", !.data = data,
                      !.numDatasets = numDatasets, !.colours = colours,
                      !.bgColour = a.bgColour, !.primaryColour = primaryColour,
                      !.borderColour = borderColour,
                      !.xAxisLabel = data[1].data[1].label,
                      !.yAxisLabel = data[1].data[2].label,
                      !.axisMarkerDensity = a.axisMarkerDensity,
                      !.bestFitLines = IF a.bestFitLines # Nothing
                                       THEN a.bestFitLines[1]
                                       ELSE [i \in 1..numDatasets |-> FALSE],
                      !.mainBestFitLine = a.mainBestFitLine,
                      !.printBestFitInfo = TRUE,
                      !.g = base.graph]])

\* a bug that checks the number of colours only
set_colours_unchecked(c, colours) ==
    IF Len(colours) # c.numDatasets
    THEN [status |-> "ValueError", chart |-> c]
    ELSE [status |-> "ok", chart |-> [c EXCEPT !.colours = colours]]

\* BoxplotGraph.set_colours and Scatterplot.set_colours, which are alike
set_colours(c, colours) ==
    LET \* valid_rgb_colour(colour) did not return True
        stops(i) == colours[i] = Nothing \/ ~valid_rgb_colour(colours[i][1])
        first == CHOOSE i \in 1..Len(colours) :
                     stops(i) /\ \A j \in 1..(i - 1) : ~stops(j)
    IN  IF Len(colours) # c.numDatasets
        THEN [status |-> "ValueError", chart |-> c]
        ELSE IF \E i \in 1..Len(colours) : stops(i)
        \* len(colour) of None
        THEN [status |-> IF colours[first] = Nothing THEN "TypeError"
                         ELSE "ValueError",
              chart |-> c]
        ELSE [status |-> "ok", chart |-> [c EXCEPT !.colours = colours]]

\* set_title and set_x_label are the same in both chart classes
set_title(c, title) == [c EXCEPT !.title = title]

set_x_label(c, xLabel) == [c EXCEPT !.xAxisLabel = xLabel]

\* BoxplotGraph.set_y_label assigns self.yAxisLabel, Scatterplot.set_y_label
\* assigns self.yLabel, an attribute nothing else reads
set_y_label(c, yLabel) ==
    IF c.kind = "Scatterplot" THEN [c EXCEPT !.yLabel = Just(yLabel)]
    ELSE [c EXCEPT !.yAxisLabel = yLabel]

\* the pygame.draw calls of drawBoxplot for dataset number i (from 0), whose
\* statistics are stats
BoxCommands(stats, i, x, originY, scale, width, colour, lineColour) ==
    LET y(v) == RSub(originY, RMul(v, scale))
        middle == RAdd(x, RDiv(width, Two))
        third == RAdd(x, RDiv(width, RInt(3)))
    IN  <<Cmd("rect", "box", lineColour, i, <<x, y(stats.quarterThree)>>, ""),
          Cmd("rect", "boxfill", colour, i,
              <<RAdd(x, Two), RAdd(y(stats.quarterThree), Two)>>, ""),
          Cmd("line", "median", lineColour, i, <<x, y(stats.medianValue)>>, ""),
          Cmd("line", "lowertail", lineColour, i,
              <<middle, y(stats.quarterOne)>>, ""),
          Cmd("line", "uppertail", lineColour, i,
              <<middle, y(stats.quarterThree)>>, ""),
          Cmd("line", "lowercap", lineColour, i,
              <<third, y(stats.lowerBound)>>, ""),
          Cmd("line", "uppercap", lineColour, i,
              <<third, y(stats.upperBound)>>, "")>>
        \o [k \in 1..(2 * Len(stats.outliers)) |->
               IF k % 2 = 1
               THEN Cmd("circle", "outlier", colour, i,
                        <<middle, y(RInt(stats.outliers[(k + 1) \div 2]))>>, "")
               ELSE Cmd("circle", "outlierring", lineColour, i,
                        <<middle, y(RInt(stats.outliers[k \div 2]))>>, "")]

\* the for loop of BoxplotGraph.draw, from dataset number i (from 1) on
RECURSIVE BoxplotsFrom(_, _, _)
BoxplotsFrom(c, g, i) ==
    LET boxWidth == RDiv(g.graphWidth, RInt(c.numDatasets))
        boxX == RAdd(g.graphX,
                     RMul(RAdd(RInt(i - 1), Rat(5, 100)), boxWidth))
        colour == IF c.colours[i] # Nothing THEN c.colours[i][1] ELSE Grey
    IN  IF i > Len(c.data) THEN Drawn("ok", <<>>)
        \* self.colours[i], then colour[0], colour[1], colour[2]
        ELSE IF i > Len(c.colours) \/ Len(colour) < 3
        THEN Drawn("IndexError", <<>>)
        ELSE With(drawBoxplot(c.data[i]), LAMBDA stats :
                 IF stats.status # "ok" THEN Drawn(stats.status, <<>>)
                 ELSE With(BoxplotsFrom(c, g, i + 1), LAMBDA rest :
                          Drawn(rest.status,
                                BoxCommands(stats, i - 1, boxX, g.originY,
                                            g.yScale,
                                            RMul(boxWidth, Rat(9, 10)),
                                            Paint(colour), LineColour(colour))
                                    \o rest.cmds)))

\* draw_line(window, originX, originY, xScale, yScale, slope, intercept,
\* startX, endX, colour)
draw_line(g, fit, startX, part, colour, i) ==
    Cmd("line", part, colour, i,
        <<RAdd(g.originX, RMul(g.xScale, RInt(startX))),
          RSub(g.originY,
               RMul(g.yScale,
                    RAdd(fit.intercept, RMul(fit.slope, RInt(startX)))))>>,
        "")

\* the points of dataset number i (from 1) and its best fit line
PointsOf(c, g, i) ==
    With(get_points_list(c.data[i]), LAMBDA points :
        LET \* colour = self.colours[i] as pygame receives it: a colour, or
            \* None
            colour == IF c.colours[i] = Nothing THEN None
                      ELSE Paint(c.colours[i][1])
            circles == [j \in 1..Len(points.val) |->
                           Cmd("circle", "point", colour, i - 1,
                               <<PixelX(g, points.val[j][1]),
                                 PixelY(g, points.val[j][2])>>, "")]
        IN  IF points.status # "ok" THEN Drawn(points.status, <<>>)
            ELSE IF ~c.bestFitLines[i] THEN Drawn("ok", circles)
            ELSE With(linear_regression(Mvd_getData(c.data[i], 0).val,
                                        Mvd_getData(c.data[i], 1).val),
                      LAMBDA fit :
                          IF fit.status # "ok"
                          THEN Drawn(fit.status, circles)
                          ELSE Drawn("ok",
                                     circles
                                         \o <<draw_line(
                                                g, fit,
                                                SeqMin(c.data[i].data[1].data),
                                                "fit", colour,
                                                i - 1)>>)))

\* the for loop of Scatterplot.draw, from dataset number i (from 1) on
RECURSIVE PointsFrom(_, _, _)
PointsFrom(c, g, i) ==
    IF i > Len(c.data) THEN Drawn("ok", <<>>)
    ELSE IF i > Len(c.colours) THEN Drawn("IndexError", <<>>)
    ELSE With(PointsOf(c, g, i), LAMBDA this :
             IF this.status # "ok" THEN this
             ELSE With(PointsFrom(c, g, i + 1), LAMBDA rest :
                      Drawn(rest.status, this.cmds \o rest.cmds)))

\* xData += dataset.getData(0) over the datasets (d = 1), and yData (d = 2)
RECURSIVE AllData(_, _)
AllData(data, d) ==
    IF data = <<>> THEN <<>>
    ELSE Head(data).data[d].data \o AllData(Tail(data), d)

\* the main best fit line of Scatterplot.draw
MainFit(c, g) ==
    IF ~c.mainBestFitLine THEN Drawn("ok", <<>>)
    ELSE With(linear_regression(AllData(c.data, 1), AllData(c.data, 2)),
              LAMBDA fit :
                  IF fit.status # "ok" THEN Drawn(fit.status, <<>>)
                  ELSE Drawn("ok",
                             <<draw_line(g, fit, SeqMin(AllData(c.data, 1)),
                                         "mainfit", Paint(c.primaryColour),
                                         0)>>))

\* c.draw(window): the outcome, the chart afterwards and the commands sent
\* to pygame before draw returned or raised
Chart_draw(c, window) ==
    With(Graph_draw(c, window), LAMBDA base :
        IF base.status # "ok"
        THEN [status |-> base.status, chart |-> [c EXCEPT !.g = base.g],
              cmds |-> base.cmds]
        ELSE With([c EXCEPT !.g = base.g], LAMBDA c1 :
            With(IF c.kind = "BoxplotGraph" THEN BoxplotsFrom(c1, base.g, 1)
                 ELSE PointsFrom(c1, base.g, 1), LAMBDA marks :
                IF marks.status # "ok" \/ c.kind = "BoxplotGraph"
                THEN [status |-> marks.status, chart |-> c1,
                      cmds |-> base.cmds \o marks.cmds]
                ELSE With(MainFit(c1, base.g), LAMBDA main :
                         [status |-> main.status,
                          chart |-> IF c.mainBestFitLine /\ main.status = "ok"
                                    THEN [c1 EXCEPT !.printBestFitInfo = FALSE]
                                    ELSE c1,
                          cmds |-> base.cmds \o marks.cmds \o main.cmds]))))

---------------------------------------------------------------------------
(* The chart inputs and calls *)

Red == <<255, 0, 0>>
Blue == <<0, 0, 255>>
TooBright == <<300, 0, 0>>      \* a component above 255
TwoParts == <<255, 0>>          \* two components

\* the datasets of a BoxplotGraph: one of range 3, one of range 1, two of
\* which the second has a single value, one whose values are all the same,
\* one without values
BoxplotInputs ==
    {<<<<0, 1, 2, 3>>>>, <<<<0, 1>>>>, <<<<0, 1, 2, 3>>, <<2>>>>,
     <<<<1, 1>>>>, <<<<>>>>}

\* the (x, y) series of the datasets of a Scatterplot: one spread on both
\* axes, two of which the first has a single x, one whose largest x is 0
ScatterInputs ==
    {<< <<<<1, 2, 4>>, <<0, 1, 3>>>> >>,
     << <<<<1, 1>>, <<0, 1>>>>, <<<<0, 3>>, <<0, 3>>>> >>,
     << <<<<-1, 0>>, <<0, 1>>>> >>}

ChartData ==
    [kind : {"BoxplotGraph"}, lists : BoxplotInputs]
        \cup [kind : {"Scatterplot"}, lists : ScatterInputs]

\* width and height: left to the window, Px, or 0
ChartSizes ==
    {<<None, None>>, <<RInt(Px), RInt(Px)>>, <<RInt(0), RInt(Px)>>,
     <<RInt(Px), RInt(0)>>}

\* the windows draw is called with
ChartWindows ==
    {[width |-> Px, height |-> Px], [width |-> 2 * Px, height |-> Px],
     [width |-> 0, height |-> Px], [width |-> Px, height |-> 0]}

\* the colour arguments: the defaults, or some of them given
Palettes(n) ==
    LET default == [bgColour |-> White, primaryColour |-> Nothing,
                    borderColour |-> Nothing, colours |-> Nothing]
    IN  {default,
         [default EXCEPT !.colours = Just([i \in 1..n |-> Just(Red)])],
         [default EXCEPT !.colours = Just([i \in 1..n |-> Just(TooBright)])],
         [default EXCEPT !.colours = Just([i \in 1..n |-> Just(TwoParts)])],
         [default EXCEPT !.colours = Just([i \in 1..n |-> Nothing])],
         [default EXCEPT !.bgColour = <<-1, 0, 0>>],
         [default EXCEPT !.primaryColour = Just(<<0, 0, 300>>),
                         !.borderColour = Just(<<0, -5, 0>>)]}

\* axisMarkerDensity: the default 0.008, and 0.25
Densities == {Rat(8, 1000), Rat(1, 4)}

\* best fit lines: none, one for each dataset, or the main one
Fits(d) ==
    LET none == [bestFitLines |-> Nothing, mainBestFitLine |-> FALSE]
    IN  IF d.kind = "BoxplotGraph" THEN {none}
        ELSE {none,
              [none EXCEPT
                  !.bestFitLines = Just([i \in 1..Len(d.lists) |-> TRUE])],
              [none EXCEPT !.mainBestFitLine = TRUE]}

ChartArgs ==
    {[kind |-> d.kind, lists |-> d.lists, x |-> 0, y |-> 0,
      width |-> size[1], height |-> size[2], graphSize |-> Rat(3, 4),
      borderWidth |-> 0, bgColour |-> p.bgColour,
      primaryColour |-> p.primaryColour, borderColour |-> p.borderColour,
      colours |-> p.colours, axisMarkerDensity |-> density,
      bestFitLines |-> f.bestFitLines, mainBestFitLine |-> f.mainBestFitLine] :
        <<d, size, density>> \in ChartData \X ChartSizes \X Densities,
        p \in UNION {Palettes(n) : n \in 1..2},
        f \in UNION {Fits(e) : e \in ChartData}}

\* the arguments whose colour and fit lists have one entry for each dataset
WellFormedChartArgs ==
    {a \in ChartArgs :
        /\ a.colours # Nothing => Len(a.colours[1]) = Len(a.lists)
        /\ a.bestFitLines # Nothing => Len(a.bestFitLines[1]) = Len(a.lists)
        /\ a.kind = "BoxplotGraph" =>
              a.bestFitLines = Nothing /\ ~a.mainBestFitLine}

\* a chart 16 wide and high whose data span 1 on both axes: the interval is
\* 0.2, and mark 5 of each axis is due exactly at the far edge
FarEdgeChartArgs ==
    {[kind |-> "Scatterplot", lists |-> << <<<<1, 2>>, <<1, 2>>>> >>,
      x |-> 0, y |-> 0, width |-> RInt(16), height |-> RInt(16),
      graphSize |-> Rat(3, 4), borderWidth |-> 0, bgColour |-> White,
      primaryColour |-> Nothing, borderColour |-> Nothing,
      colours |-> Nothing,
      axisMarkerDensity |-> Rat(1, 4), bestFitLines |-> Nothing,
      mainBestFitLine |-> FALSE]}

\* a chart whose border is wider than the chart itself and whose graphSize
\* is negative: the effective width and height are -16, the graph is 12
\* wide and high again
WideBorderChartArgs ==
    {[a EXCEPT !.width = RInt(0), !.height = RInt(0), !.borderWidth = 8,
               !.graphSize = Rat(-3, 4)] : a \in FarEdgeChartArgs}

\* the arguments of set_colours
ColourLists ==
    {[i \in 1..Len(list) |-> Just(list[i])] :
        list \in {<<Red>>, <<TooBright>>, <<TwoParts>>, <<Blue, Red>>,
                  <<Red, TooBright>>, <<Red, Red, Red>>}}

NoChartCall ==
    [op |-> "none", status |-> "none", window |-> EmptySurface, arg |-> "",
     colours |-> <<>>]

\* the DiscreteData or MultivariableDiscreteData objects the caller builds of
\* its lists, one after the other, or the exception of the first constructor
\* that failed
DatasetsOf(a) ==
    LET dataset(lists) ==
            IF a.kind = "BoxplotGraph"
            THEN With(DiscreteData(lists), LAMBDA d :
                     [status |-> d.status, val |-> d.obj])
            ELSE With(<<DiscreteData(lists[1]), DiscreteData(lists[2])>>,
                      LAMBDA s :
                     IF s[1].status # "ok" THEN Raise(s[1].status)
                     ELSE IF s[2].status # "ok" THEN Raise(s[2].status)
                     ELSE With(MultivariableDiscreteData(
                                   <<s[1].obj, s[2].obj>>),
                               LAMBDA m :
                                   [status |-> m.status, val |-> m.mvd]))
        built == [i \in 1..Len(a.lists) |-> dataset(a.lists[i])]
        failed(i) == built[i].status # "ok"
    IN  IF \E i \in 1..Len(built) : failed(i)
        THEN Raise(built[CHOOSE i \in 1..Len(built) :
                             failed(i) /\ \A j \in 1..(i - 1) : ~failed(j)]
                       .status)
        ELSE Ok([i \in 1..Len(built) |-> built[i].val])

\* the caller's statement: the datasets are built, then the chart of them;
\* an exception of the former ends the statement before the chart's
\* constructor is called
ChartOf(a) ==
    With(DatasetsOf(a), LAMBDA datasets :
        IF datasets.status # "ok" THEN ChartRaise(datasets.status)
        ELSE IF a.kind = "BoxplotGraph" THEN BoxplotGraph(datasets.val, a)
        ELSE Scatterplot(datasets.val, a))

NewChart ==
    /\ ccall.op = "none"
    /\ \E r \in {ChartOf(chartArgs)} :
          /\ chart' = r.chart
          /\ ccall' = [op |-> "__init__", status |-> r.status,
                       window |-> EmptySurface, arg |-> "",
                       colours |-> <<>>]
    /\ UNCHANGED <<chartArgs, canvas>>
    /\ UNCHANGED <<statVars, regVars, graphVars, niceVars, mvdVars>>

Draw ==
    /\ chart.alive
    /\ \E window \in ChartWindows :
          \E r \in {Chart_draw(chart, window)} :
              /\ chart' = r.chart
              /\ canvas' = r.cmds
              /\ ccall' = [op |-> "draw", status |-> r.status,
                           window |-> window, arg |-> "",
                           colours |-> <<>>]
    /\ UNCHANGED chartArgs
    /\ UNCHANGED <<statVars, regVars, graphVars, niceVars, mvdVars>>

SetColours ==
    /\ chart.alive
    /\ \E colours \in ColourLists :
          \E r \in {set_colours(chart, colours)} :
              /\ chart' = r.chart
              /\ ccall' = [op |-> "set_colours", status |-> r.status,
                           window |-> EmptySurface, arg |-> "",
                           colours |-> colours]
    /\ UNCHANGED <<chartArgs, canvas>>
    /\ UNCHANGED <<statVars, regVars, graphVars, niceVars, mvdVars>>

\* the texts the title and the axis labels are set to
LabelTexts == {"a", "b"}

\* the charts whose labels are set: one of each class, Px wide and high,
\* with the default colours
LabelledChartArgs ==
    {a \in WellFormedChartArgs :
        /\ \/ a.kind = "BoxplotGraph" /\ a.lists = <<<<0, 1, 2, 3>>>>
           \/ a.kind = "Scatterplot"
                /\ a.lists = << <<<<1, 2, 4>>, <<0, 1, 3>>>> >>
        /\ a.width = RInt(Px)
        /\ a.height = RInt(Px)
        /\ a.axisMarkerDensity = Rat(1, 4)
        /\ a.colours = Nothing
        /\ a.bgColour = White
        /\ a.primaryColour = Nothing
        /\ a.borderColour = Nothing
        /\ a.bestFitLines = Nothing
        /\ ~a.mainBestFitLine}

LabelSet(op, text, c) ==
    /\ chart' = c
    /\ ccall' = [op |-> op, status |-> "ok", window |-> EmptySurface,
                 arg |-> text, colours |-> <<>>]
    /\ UNCHANGED <<chartArgs, canvas>>
    /\ UNCHANGED <<statVars, regVars, graphVars, niceVars, mvdVars>>

SetTitle ==
    /\ chart.alive
    /\ \E title \in LabelTexts :
          LabelSet("set_title", title, set_title(chart, title))

SetXLabel ==
    /\ chart.alive
    /\ \E xLabel \in LabelTexts :
          LabelSet("set_x_label", xLabel, set_x_label(chart, xLabel))

SetYLabel ==
    /\ chart.alive
    /\ \E yLabel \in LabelTexts :
          LabelSet("set_y_label", yLabel, set_y_label(chart, yLabel))

---------------------------------------------------------------------------
(* The specifications: one for each part of the library *)

IdleStats ==
    /\ values = <<>>
    /\ obj = NoObj
    /\ last = NoCall
    /\ box = NoBox

IdleReg ==
    /\ xData = <<>>
    /\ yData = <<>>
    /\ reg = NoReg

IdleGraph ==
    /\ graphArgs = CHOOSE a \in GraphArgs : TRUE
    /\ graph = NoGraph
    /\ gstatus = "new"
    /\ gcall = NoGraphCall

IdleNice ==
    /\ rawInterval = RInt(1)
    /\ interval = NoInterval

IdleMvd ==
    /\ series = <<>>
    /\ mvd = NoMvd
    /\ mcall = NoMCall

IdleChart ==
    /\ chartArgs = <<>>
    /\ chart = NoChart
    /\ canvas = <<>>
    /\ ccall = NoChartCall

InitStats ==
    /\ values \in Datasets
    /\ obj = NoObj
    /\ last = NoCall
    /\ box = NoBox
    /\ IdleReg
    /\ IdleGraph
    /\ IdleNice
    /\ IdleMvd
    /\ IdleChart

NextStats ==
    \/ Median
    \/ NewDiscreteData
    \/ QuarterOne
    \/ QuarterThree
    \/ DrawBoxplot

SpecStats == InitStats /\ [][NextStats]_vars

InitReg ==
    /\ xData \in RegInputs
    /\ yData \in RegInputs
    /\ reg = NoReg
    /\ IdleStats
    /\ IdleGraph
    /\ IdleNice
    /\ IdleMvd
    /\ IdleChart

NextReg == LinearRegression

SpecReg == InitReg /\ [][NextReg]_vars

InitGraph ==
    /\ graphArgs \in GraphArgs
    /\ graph = NoGraph
    /\ gstatus = "new"
    /\ gcall = NoGraphCall
    /\ IdleStats
    /\ IdleReg
    /\ IdleNice
    /\ IdleMvd
    /\ IdleChart

NextGraph ==
    \/ NewGraph
    \/ SetDimensions

SpecGraph == InitGraph /\ [][NextGraph]_vars

InitDiscrete ==
    /\ values \in SmallDatasets
    /\ obj = NoObj
    /\ last = NoCall
    /\ box = NoBox
    /\ IdleReg
    /\ IdleGraph
    /\ IdleNice
    /\ IdleMvd
    /\ IdleChart

NextDiscrete ==
    \/ NewDiscreteData
    \/ QuarterOne
    \/ QuarterThree
    \/ DrawBoxplot
    \/ Max
    \/ Min
    \/ GetValue
    \/ GetData
    \/ MutateValues

SpecDiscrete == InitDiscrete /\ [][NextDiscrete]_vars

InitMvd ==
    /\ series \in SeriesInputs
    /\ mvd = NoMvd
    /\ mcall = NoMCall
    /\ IdleStats
    /\ IdleReg
    /\ IdleGraph
    /\ IdleNice
    /\ IdleChart

NextMvd ==
    \/ NewMultivariableDiscreteData
    \/ GetPointsList
    \/ SetLabels
    \/ MvdMax
    \/ MvdMin
    \/ MvdGetData

SpecMvd == InitMvd /\ [][NextMvd]_vars

InitChart ==
    /\ chartArgs \in WellFormedChartArgs \cup FarEdgeChartArgs
                           \cup WideBorderChartArgs
    /\ chart = NoChart
    /\ canvas = <<>>
    /\ ccall = NoChartCall
    /\ IdleStats
    /\ IdleReg
    /\ IdleGraph
    /\ IdleNice
    /\ IdleMvd

NextChart ==
    \/ NewChart
    \/ Draw
    \/ SetColours

SpecChart == InitChart /\ [][NextChart]_vars

InitLabels ==
    /\ chartArgs \in LabelledChartArgs
    /\ chart = NoChart
    /\ canvas = <<>>
    /\ ccall = NoChartCall
    /\ IdleStats
    /\ IdleReg
    /\ IdleGraph
    /\ IdleNice
    /\ IdleMvd

NextLabels ==
    \/ NewChart
    \/ Draw
    \/ SetTitle
    \/ SetXLabel
    \/ SetYLabel

SpecLabels == InitLabels /\ [][NextLabels]_vars

InitNice ==
    /\ rawInterval \in RawIntervals
    /\ interval = NoInterval
    /\ IdleStats
    /\ IdleReg
    /\ IdleGraph
    /\ IdleMvd
    /\ IdleChart

NextNice == NextLowestDecimultiple

SpecNice == InitNice /\ [][NextNice]_vars

---------------------------------------------------------------------------
(* Properties of the statistics, checked under SpecStats *)

Range(s) == {s[i] : i \in 1..Len(s)}
SetMax(S) == CHOOSE m \in S : \A x \in S : x <= m

\* x is the value at index k (from 0) of the ascending sort of s, said by
\* counting: at most k values are smaller and more than k are not larger.
IsRanked(s, k, x) ==
    /\ x \in Range(s)
    /\ Cardinality({i \in 1..Len(s) : s[i] < x}) <= k
    /\ Cardinality({i \in 1..Len(s) : s[i] <= x}) > k

\* r is the value at index k of the sort
IsValueAt(s, k, r) == \E x \in Range(s) : IsRanked(s, k, x) /\ r = RInt(x)

\* r is the average of the values at indices k and k + 1 of the sort
IsAverageAt(s, k, r) ==
    \E a, b \in Range(s) :
        IsRanked(s, k, a) /\ IsRanked(s, k + 1, b) /\ r = Rat(a + b, 2)

\* s with the elements at positions i and i + 1 exchanged
Swap(s, i) == [s EXCEPT ![i] = s[i + 1], ![i + 1] = s[i]]

\* C1: median of a non-empty sequence is the middle element of the ascending
\* sort for an odd length and the average of the two central elements for an
\* even length, and exchanging two neighbours of the input (hence any
\* permutation of it) leaves the result the same.
C1_MedianIsMiddleOfSort ==
    (last.op = "median" /\ values # <<>>) =>
        LET n == Len(values)
        IN  /\ last.status = "ok"
            /\ IF n % 2 = 1
               THEN IsValueAt(values, (n - 1) \div 2, last.val)
               ELSE IsAverageAt(values, (n \div 2) - 1, last.val)
            /\ \A i \in 1..(n - 1) : median(Swap(values, i)) = Ok(last.val)

\* an unsorted input of even length whose median is not a whole number
C1_Witness ==
    /\ last.op = "median"
    /\ Len(values) >= 4
    /\ Len(values) % 2 = 0
    /\ values # Sort(values)
    /\ last.val[2] = 2

\* C2: with k = floor((n-1)/4), quarterOne is the value at index k and
\* quarterThree the value at index 3k of the sort when (n-1)/4 is whole, and
\* otherwise the averages of the values at k, k+1 and at 3k, 3k+1.
C2_QuartileRankRule ==
    obj.alive =>
        LET n == Len(obj.data)
            k == (n - 1) \div 4
        IN  /\ n >= 1
            /\ last.op = "quarterOne" =>
                 /\ last.status = "ok"
                 /\ IF (n - 1) % 4 = 0
                    THEN IsValueAt(obj.data, k, last.val)
                    ELSE IsAverageAt(obj.data, k, last.val)
            /\ last.op = "quarterThree" =>
                 /\ last.status = "ok"
                 /\ IF (n - 1) % 4 = 0
                    THEN IsValueAt(obj.data, 3 * k, last.val)
                    ELSE IsAverageAt(obj.data, 3 * k, last.val)

\* quarterOne answered the average of two different values at k = 1, k + 1
C2_Witness ==
    /\ obj.alive
    /\ last.op = "quarterOne"
    /\ Len(obj.data) >= 6
    /\ (Len(obj.data) - 1) % 4 # 0
    /\ last.val[2] = 2

\* C3 as stated: for [1..8], Q1 = 2 and Q3 = 6.
C3_Original ==
    (obj.alive /\ obj.data = EightValues) =>
        /\ last.op = "quarterOne" => last.val = RInt(2)
        /\ last.op = "quarterThree" => last.val = RInt(6)

\* C3 amended: for [1,2,3,4,5,6,7,8], (8-1)/4 is not whole, so Q1 = 2.5, the
\* average of the values at indices 1 and 2, and Q3 = 4.5, the average of
\* the values at indices 3 and 4.
C3_EightValuesQuartiles ==
    (obj.alive /\ obj.data = EightValues) =>
        /\ last.op = "quarterOne" => last = Called("quarterOne", Ok(Rat(5, 2)))
        /\ last.op = "quarterThree" =>
             last = Called("quarterThree", Ok(Rat(9, 2)))

C3_Witness ==
    /\ obj.alive
    /\ obj.data = EightValues
    /\ last.op = "quarterThree"
    /\ last.status = "ok"

\* the data values that are > bound, and those that are <= bound
ValuesAbove(d, bound) == {v \in Range(d) : RLt(bound, RInt(v))}
ValuesUpTo(d, bound) == {v \in Range(d) : RLe(RInt(v), bound)}
ValuesFrom(d, bound) == {v \in Range(d) : RLe(bound, RInt(v))}

\* drawBoxplot got as far as the two thresholds q1 - 1.5 iqr, q3 + 1.5 iqr
BoxHasThresholds ==
    /\ last.op = "drawBoxplot"
    /\ box.quarterOne # None
    /\ box.quarterThree # None
    /\ box.iqr = RSub(box.quarterThree, box.quarterOne)
    /\ box.lowerThreshold = RSub(box.quarterOne, RMul(Rat(3, 2), box.iqr))
    /\ box.upperThreshold = RAdd(box.quarterThree, RMul(Rat(3, 2), box.iqr))

\* C4 as stated: the lower fence is the largest data value <= q1 - 1.5 iqr
\* and the upper fence the smallest data value >= q3 + 1.5 iqr, where such
\* values exist.
C4_Original ==
    (last.op = "drawBoxplot" /\ box.status = "ok") =>
        /\ BoxHasThresholds
        /\ ValuesUpTo(obj.data, box.lowerThreshold) # {} =>
             box.lowerBound =
                 RInt(SetMax(ValuesUpTo(obj.data, box.lowerThreshold)))
        /\ ValuesFrom(obj.data, box.upperThreshold) # {} =>
             box.upperBound =
                 RInt(SetMin(ValuesFrom(obj.data, box.upperThreshold)))

\* C4 amended: the lower fence is the smallest data value > q1 - 1.5 iqr and
\* the upper fence is the largest data value <= q3 + 1.5 iqr, for every
\* dataset in which a data value > q1 - 1.5 iqr exists.
C4_FencesAreInnermost ==
    (last.op = "drawBoxplot" /\ obj.data # <<>>) =>
        /\ BoxHasThresholds
        /\ ValuesAbove(obj.data, box.lowerThreshold) # {} =>
             /\ box.status = "ok"
             /\ box.lowerBound =
                    RInt(SetMin(ValuesAbove(obj.data, box.lowerThreshold)))
             /\ ValuesUpTo(obj.data, box.upperThreshold) # {}
             /\ box.upperBound =
                    RInt(SetMax(ValuesUpTo(obj.data, box.upperThreshold)))

\* a boxplot with a value beyond each threshold and a value on neither side
C4_Witness ==
    /\ last.op = "drawBoxplot"
    /\ box.status = "ok"
    /\ ValuesUpTo(obj.data, box.lowerThreshold) # {}
    /\ ValuesAbove(obj.data, box.upperThreshold) # {}
    /\ RLt(box.lowerBound, box.upperBound)
    /\ RLt(RInt(0), box.iqr)

\* the lower search returned and no data value is above q3 + 1.5 iqr
NothingAboveUpper ==
    /\ last.op = "drawBoxplot"
    /\ box.lowerBound # None
    /\ ValuesAbove(obj.data, box.upperThreshold) = {}

\* C5 as stated: with no data value above q3 + 1.5 iqr the upper search
\* fails instead of returning a value.
C5_Original ==
    NothingAboveUpper => (box.status # "ok" /\ box.upperBound = None)

\* C5 amended: when no data value lies above the upper bound q3 + 1.5 iqr,
\* the upper-fence search returns the dataset's maximum and raises no error.
C5_UpperSearchFallsBackToMax ==
    NothingAboveUpper =>
        /\ BoxHasThresholds
        /\ box.status = "ok"
        /\ box.upperBound = RInt(SetMax(Range(obj.data)))

C5_Witness ==
    /\ NothingAboveUpper
    /\ box.status = "ok"
    /\ ValuesUpTo(obj.data, box.lowerThreshold) # {}
    /\ RLt(RInt(0), box.iqr)

\* the thresholds were computed and no data value is <= q1 - 1.5 iqr
NothingBelowLower ==
    /\ last.op = "drawBoxplot"
    /\ box.lowerThreshold # None
    /\ ValuesUpTo(obj.data, box.lowerThreshold) = {}

\* C6: when no data value lies at or below q1 - 1.5 iqr, the lower-fence
\* search returns the dataset's minimum and no error is raised.
C6_LowerSearchFallsBackToMin ==
    NothingBelowLower =>
        /\ BoxHasThresholds
        /\ box.status = "ok"
        /\ box.lowerBound = RInt(SetMin(Range(obj.data)))

C6_Witness ==
    /\ NothingBelowLower
    /\ box.status = "ok"
    /\ ValuesAbove(obj.data, box.upperThreshold) # {}

\* C7: for [1,2,2,3,4,5,50] the boxplot computes the quartiles 2 and 3.5, the
\* thresholds -0.25 and 5.75, the fences 1 and 5, and flags exactly 50.
C7_OutlierExample ==
    (obj.alive /\ obj.data = OutlierExample /\ last.op = "drawBoxplot") =>
        /\ box.status = "ok"
        /\ box.quarterOne = RInt(2)
        /\ box.quarterThree = Rat(7, 2)
        /\ box.lowerThreshold = Rat(-1, 4)
        /\ box.upperThreshold = Rat(23, 4)
        /\ box.lowerBound = RInt(1)
        /\ box.upperBound = RInt(5)
        /\ box.outliers = <<50>>

C7_Witness ==
    /\ obj.alive
    /\ obj.data = OutlierExample
    /\ last.op = "drawBoxplot"
    /\ box.outliers # <<>>

---------------------------------------------------------------------------
(* Properties of linear_regression, checked under SpecReg *)

\* the sum of f[i] over the set I of indices
RECURSIVE SumOver(_, _)
SumOver(I, f) ==
    IF I = {} THEN 0
    ELSE LET i == CHOOSE j \in I : TRUE IN f[i] + SumOver(I \ {i}, f)

\* the sums over the first n points
SumX(n) == SumOver(1..n, xData)
SumY(n) == SumOver(1..n, yData)
SumXY(n) == SumOver(1..n, [i \in 1..n |-> xData[i] * yData[i]])
SumXX(n) == SumOver(1..n, [i \in 1..n |-> xData[i] * xData[i]])
\* D = n Sum(x^2) - (Sum x)^2
Denominator(n) == n * SumXX(n) - SumX(n) * SumX(n)

RegCalled == reg.status # "none"

\* C8: on equal-length inputs with D # 0, linear_regression returns
\* (slope, intercept) with slope D = n Sum(xy) - Sum(x) Sum(y) and
\* intercept D = Sum(y) Sum(x^2) - Sum(x) Sum(xy); for [1,2,3], [2,4,6] it
\* returns slope 2 and intercept 0.
C8_LeastSquaresFormula ==
    /\ (RegCalled /\ Len(xData) = Len(yData)
          /\ Denominator(Len(xData)) # 0) =>
           LET n == Len(xData)
               D == RInt(Denominator(n))
           IN  /\ reg.status = "ok"
               /\ RMul(reg.slope, D) = RInt(n * SumXY(n) - SumX(n) * SumY(n))
               /\ RMul(reg.intercept, D) =
                      RInt(SumY(n) * SumXX(n) - SumX(n) * SumXY(n))
    /\ (RegCalled /\ xData = <<1, 2, 3>> /\ yData = <<2, 4, 6>>) =>
           reg = RegOk(RInt(2), RInt(0))

\* a fit whose slope is not a whole number and whose intercept is not zero
C8_Witness ==
    /\ reg.status = "ok"
    /\ Len(xData) = 3
    /\ reg.slope[2] > 1
    /\ reg.intercept[1] # 0

\* all the x values are the same (none or one value included)
AllSame(x) == \A i, j \in 1..Len(x) : x[i] = x[j]

\* C9: linear_regression fails and returns no pair when the lengths differ,
\* and when the denominator is zero, as it is when all x are identical.
C9_DegenerateInputFails ==
    RegCalled =>
        /\ Len(xData) # Len(yData) => reg = RegRaise("ValueError")
        /\ (Len(xData) = Len(yData) /\ Denominator(Len(xData)) = 0) =>
               reg = RegRaise("ZeroDivisionError")
        /\ (Len(xData) = Len(yData) /\ AllSame(xData)) =>
               /\ Denominator(Len(xData)) = 0
               /\ reg.status # "ok"

\* several points in a vertical line
C9_Witness ==
    /\ reg.status = "ZeroDivisionError"
    /\ Len(xData) >= 2
    /\ yData[1] # yData[2]

---------------------------------------------------------------------------
(* Properties of the chart geometry, checked under SpecGraph *)

NumericRangesNonZero ==
    /\ graph.maxY # graph.minY
    /\ graph.categoricalXAxis \/ graph.maxX # graph.minX

\* C10: after set_dimensions on a chart whose numeric axes have max # min,
\* the X minimum is drawn at graphX and the X maximum at graphX + graphWidth;
\* the Y minimum at the bottom graphY + graphHeight and the Y maximum at the
\* top graphY.
C10_AxisEndsMapToPlotEdges ==
    /\ (gstatus = "ok" /\ gcall.op = "set_dimensions"
          /\ NumericRangesNonZero) =>
           (gcall.status = "ok" /\ graph.dimensionsSet)
    /\ (gstatus = "ok" /\ graph.dimensionsSet) =>
           /\ NumericRangesNonZero
           /\ PixelY(graph, graph.minY) = RAdd(graph.graphY, graph.graphHeight)
           /\ PixelY(graph, graph.maxY) = graph.graphY
           /\ ~graph.categoricalXAxis =>
                /\ PixelX(graph, graph.minX) = graph.graphX
                /\ PixelX(graph, graph.maxX) =
                       RAdd(graph.graphX, graph.graphWidth)

\* a numeric chart sized by the window, whose axes do not start at zero
C10_Witness ==
    /\ gstatus = "ok"
    /\ gcall = [op |-> "set_dimensions", status |-> "ok"]
    /\ graphArgs.width = None
    /\ ~graph.categoricalXAxis
    /\ graph.minX[1] > 0
    /\ graph.minY[1] < 0
    /\ RLt(RInt(0), graph.graphWidth)
    /\ RLt(RInt(0), graph.graphHeight)

---------------------------------------------------------------------------
(* Construction of a chart with a numeric X axis, checked under SpecGraph *)

\* C11: for every numeric X range with maxX # minX (and a Y range with
\* maxY # minY), constructing the chart and computing its geometry raises
\* no error.
C11_Original ==
    (~graphArgs.categoricalXAxis
        /\ graphArgs.maxX # graphArgs.minX
        /\ graphArgs.maxY # graphArgs.minY) =>
        /\ gcall.op = "__init__" => gstatus = "ok"
        /\ gcall.op = "set_dimensions" => gcall.status = "ok"

---------------------------------------------------------------------------
(* Properties of next_lowest_decimultiple, checked under SpecNice *)

\* c 10^p, where 10^p <= r < 10^(p+1) and c is the largest of 5, 2, 1 that
\* is <= r / 10^p
IsNiceBelow(r, v) ==
    \E p \in -4..4, c \in {1, 2, 5} :
        /\ RLe(Pow10(p), r)
        /\ RLt(r, Pow10(p + 1))
        /\ RLe(RMul(RInt(c), Pow10(p)), r)
        /\ \A b \in {1, 2, 5} : RLe(RMul(RInt(b), Pow10(p)), r) => b <= c
        /\ v = RMul(RInt(c), Pow10(p))

\* C12: for every r > 0, next_lowest_decimultiple(r, [1,2,5]) is c 10^p with
\* p = floor(log10(r)) and c the largest of 5, 2, 1 that is <= r / 10^p; it
\* never exceeds r, and for r = 37 it is 20.
C12_NiceIntervalBelow ==
    (interval.status # "none" /\ RLt(RInt(0), rawInterval)) =>
        /\ interval.status = "ok"
        /\ IsNiceBelow(rawInterval, interval.val)
        /\ RLe(interval.val, rawInterval)
        /\ rawInterval = RInt(37) => interval.val = RInt(20)

\* a raw interval below 0.1 whose mantissa lies strictly between 2 and 5
C12_Witness ==
    /\ interval.status = "ok"
    /\ RLt(rawInterval, Rat(1, 10))
    /\ interval.val = Rat(2, 100)
    /\ interval.val # rawInterval

---------------------------------------------------------------------------
(* The median field of DiscreteData, checked under SpecDiscrete *)

\* C16: DiscreteData.median is set at construction and is a snapshot: no
\* later call on the object (quarterOne, quarterThree, max, min, getValue,
\* getData, drawBoxplot reading it) and no later change of the underlying
\* list changes it.
C16_MedianIsSnapshot ==
    [][(obj.alive /\ obj'.alive) =>
          /\ obj'.median = obj.median
          /\ box'.status = "ok" => box'.medianValue = obj.median]_vars

\* a method answered after the list changed, and the median field is not
\* the median of the list as it is now
C16_Witness ==
    /\ obj.alive
    /\ obj.data # <<>>
    /\ last.op = "quarterOne"
    /\ last.status = "ok"
    /\ median(obj.data) # Ok(obj.median)

---------------------------------------------------------------------------
(* MultivariableDiscreteData, checked under SpecMvd *)

SeriesBuildable == \A i \in 1..Len(series) : series[i] # <<>>
SeriesLengthsDiffer ==
    \E i, j \in 1..Len(series) : Len(series[i]) # Len(series[j])

\* C14: constructing a MultivariableDiscreteData of series of unequal length
\* fails with the length-mismatch ValueError, constructing one of fewer than
\* two series fails with a ValueError about the number of dimensions, and in
\* both cases there is no object.
C14_BadSeriesAreRejected ==
    /\ (Len(series) < 2 \/ SeriesLengthsDiffer) => ~mvd.alive
    /\ (mcall.op = "__init__" /\ SeriesBuildable) =>
          /\ Len(series) < 2 =>
                /\ mcall.status = "ValueError"
                /\ mcall.msg \in {NoDataMsg, DimensionsMsg}
                /\ Len(series) = 1 => mcall.msg = DimensionsMsg
          /\ (Len(series) >= 2 /\ SeriesLengthsDiffer) =>
                /\ mcall.status = "ValueError"
                /\ mcall.msg = MismatchMsg

\* three series, the third longer than the other two, were refused
C14_Witness ==
    /\ mcall.op = "__init__"
    /\ mcall.msg = MismatchMsg
    /\ Len(series) = 3
    /\ Len(series[1]) = 1
    /\ Len(series[2]) = 1
    /\ Len(series[3]) = 2
    /\ ~mvd.alive

\* C15: a MultivariableDiscreteData, after any sequence of get_points_list,
\* set_labels, max, min and getData, has numDimensions equal to the number
\* of series it holds and at least 2, and every series has numPoints values.
C15_SeriesStayAligned ==
    mvd.alive =>
        /\ mvd.numDimensions = Len(mvd.data)
        /\ mvd.numDimensions >= 2
        /\ \A i \in 1..Len(mvd.data) :
              /\ Len(mvd.data[i].data) = mvd.numPoints
              /\ mvd.data[i].size = mvd.numPoints
        /\ (mcall.op = "get_points_list") =>
              /\ mcall.status = "ok"
              /\ Len(mcall.val) = mvd.numPoints
              /\ \A j \in 1..Len(mcall.val) :
                    Len(mcall.val[j]) = mvd.numDimensions

\* three relabelled series of two points each, listed as points
C15_Witness ==
    /\ mvd.alive
    /\ mvd.numDimensions = 3
    /\ mvd.numPoints = 2
    /\ mvd.data[3].label = "x"
    /\ mcall.op = "get_points_list"
    /\ Len(mcall.val) = 2

---------------------------------------------------------------------------
(* Drawing a chart, checked under SpecChart *)

\* the numbers of the marks of one kind among the commands of the last draw
MarksDrawn(part) ==
    {canvas[k].index : k \in {n \in 1..Len(canvas) : canvas[n].part = part}}

PositionsOf(part, labelNum) ==
    {canvas[k].pos : k \in {n \in 1..Len(canvas) :
                               canvas[n].part = part
                                   /\ canvas[n].index = labelNum}}

TickNumbers == 0..8

DrewMarks == ccall.op = "draw" /\ ccall.status = "ok"

\* the interval of an axis: the largest of 1, 2, 5 times a power of ten that
\* is at most (max - min) / floor(axisMarkerDensity * dimension)
IsIntervalOf(v, range, dimension) ==
    IsNiceBelow(RDiv(range,
                     RInt(Floor(RMul(chart.axisMarkerDensity, dimension)))),
                v)

IntervalsOf(range, dimension) ==
    {RMul(RInt(m), Pow10(e)) : m \in {1, 2, 5}, e \in -2..2}

\* the major marks of an axis are those of the rule: mark j is drawn, at the
\* pixel of min + j * interval, exactly when its offset j * scale * interval
\* is within the dimension
MajorMarksFollowRule(mark, step, scale, dimension, IsAt(_, _)) ==
    /\ MarksDrawn(mark) \subseteq TickNumbers
    /\ \A j \in TickNumbers :
          /\ j \in MarksDrawn(mark)
                <=> RLe(RMul(RInt(j), RMul(scale, step)), dimension)
          /\ \A pos \in PositionsOf(mark, j) :
                IsAt(pos, RMul(RInt(j), step))

AtX(pos, v) == pos[1] = PixelX(chart.g, RAdd(chart.g.minX, v))
AtY(pos, v) == pos[2] = PixelY(chart.g, RAdd(chart.g.minY, v))

\* C13 as stated, its major marks: on a numeric axis major mark j is drawn at
\* the data value min + j * interval for exactly those j whose pixel offset
\* j * scale * interval is <= the plot dimension, a mark exactly at the far
\* edge included.  The loop compares the doubles labelNum * spacing and
\* dimension with no tolerance, so the mark due exactly at the far edge is
\* left out whenever the rounded product lands above the dimension.
C13_Original ==
    DrewMarks =>
        /\ \E step \in IntervalsOf(RSub(chart.g.maxY, chart.g.minY),
                                       chart.g.graphHeight) :
              /\ IsIntervalOf(step, RSub(chart.g.maxY, chart.g.minY),
                              chart.g.graphHeight)
              /\ MajorMarksFollowRule("ymark", step, chart.g.yScale,
                                      chart.g.graphHeight, AtY)
        /\ chart.kind = "Scatterplot" =>
              \E step \in IntervalsOf(RSub(chart.g.maxX, chart.g.minX),
                                          chart.g.graphWidth) :
                  /\ IsIntervalOf(step, RSub(chart.g.maxX, chart.g.minX),
                                  chart.g.graphWidth)
                  /\ MajorMarksFollowRule("xmark", step, chart.g.xScale,
                                          chart.g.graphWidth, AtX)

ValidPaint(colour) ==
    /\ Len(colour) = 3
    /\ \A i \in 1..Len(colour) :
          RLe(RInt(0), colour[i]) /\ RLe(colour[i], RInt(255))

ChartColoursValid ==
    /\ valid_rgb_colour(chart.bgColour)
    /\ valid_rgb_colour(chart.primaryColour)
    /\ valid_rgb_colour(chart.borderColour)
    /\ \A i \in 1..Len(chart.colours) :
          /\ chart.colours[i] # Nothing
          /\ valid_rgb_colour(chart.colours[i][1])

\* C17 as stated: a malformed colour is rejected where it is set, by
\* set_colours and by the chart constructors alike, so the chart never holds
\* one and no draw command carries one.
C17_Original ==
    chart.alive =>
        /\ ChartColoursValid
        /\ \A k \in 1..Len(canvas) : ValidPaint(canvas[k].colour)

\* C18 as stated: when draw fails, no draw command was sent before the
\* failure (stated for charts whose colours are all well formed).
C18_Original ==
    (ccall.op = "draw" /\ ccall.status # "ok" /\ ChartColoursValid) =>
        canvas = <<>>

\* C19 as stated: drawing a chart whose pixel rectangle has width zero or
\* height zero fails, before any draw command is sent (stated for charts
\* whose colours are all well formed).
C19_Original ==
    (/\ ccall.op = "draw"
     /\ ChartColoursValid
     /\ chart.g.width = RInt(0) \/ chart.g.height = RInt(0)) =>
        ccall.status # "ok" /\ canvas = <<>>

\* C20: once the geometry is computed, at construction when width and height
\* are both given and otherwise by the first draw that succeeds, no later
\* draw changes it: dimensionsSet stays true and graphX, graphY, graphWidth,
\* graphHeight, xScale, yScale, originX and originY keep their values.
C20_GeometryIsReused ==
    [][/\ (chart.alive /\ chart.g.dimensionsSet) => chart'.g = chart.g
       /\ (/\ chart'.alive
           /\ chartArgs.width # None
           /\ chartArgs.height # None) => chart'.g.dimensionsSet
       /\ (ccall'.op = "draw" /\ ccall'.status = "ok") =>
              chart'.g.dimensionsSet]_vars

\* a chart fitted to the window of its first draw was drawn again on a
\* window of another width, and kept its width
C20_Witness ==
    /\ ccall.op = "draw"
    /\ ccall.status = "ok"
    /\ canvas # <<>>
    /\ chartArgs.width = None
    /\ chart.g.dimensionsSet
    /\ chart.g.width # RInt(ccall.window.width)

---------------------------------------------------------------------------
(* The points of a MultivariableDiscreteData, checked under SpecMvd *)

\* the j-th point of the series the object was built of, as a tuple
InputPoint(j) == [i \in 1..Len(series) |-> RInt(series[i][j])]

\* C21: get_points_list() returns exactly numPoints tuples, the j-th being
\* (data[0][j], ..., data[numDimensions-1][j]) in the order of the input; the
\* call changes nothing of the object, and a second call returns the same
\* sequence.
C21_PointsInInputOrder ==
    /\ [](mcall.op = "get_points_list" =>
            /\ mcall.status = "ok"
            /\ Len(mcall.val) = mvd.numPoints
            /\ mvd.numPoints = Len(series[1])
            /\ \A j \in 1..Len(mcall.val) : mcall.val[j] = InputPoint(j))
    /\ [][mcall'.op = "get_points_list" =>
            /\ mvd' = mvd
            /\ series' = series
            /\ mcall.op = "get_points_list" => mcall'.val = mcall.val]_vars

\* two points of three dimensions that differ, and whose components differ
C21_Witness ==
    /\ mcall.op = "get_points_list"
    /\ mcall.status = "ok"
    /\ mvd.numDimensions = 3
    /\ Len(mcall.val) = 2
    /\ mcall.val[1] = <<RInt(0), RInt(1), RInt(1)>>
    /\ mcall.val[2] = <<RInt(1), RInt(1), RInt(0)>>

---------------------------------------------------------------------------
(* The order of the quartiles and the median, checked under SpecStats *)

\* quarterOne() or quarterThree() answered for a non-empty dataset
QuartileOf(op) ==
    /\ obj.alive
    /\ obj.data # <<>>
    /\ last.op = op

\* the statement as made: the median lies between the quartiles for every
\* non-empty dataset
C22_Original ==
    /\ QuartileOf("quarterOne") =>
          last.status = "ok" /\ RLe(last.val, obj.median)
    /\ QuartileOf("quarterThree") =>
          last.status = "ok" /\ RLe(obj.median, last.val)

\* C22: for every non-empty dataset quarterOne() <= median; median <=
\* quarterThree() for every dataset of 1, 2, 5 or more values; for a dataset
\* of 3 or 4 values quarterThree() is the average of the two smallest
\* values, the same as quarterOne(), and never above the median: of 3 values
\* it is below the median exactly when the smallest value is below the
\* second smallest, of 4 values exactly when the smallest value is below the
\* third smallest, and otherwise it equals the median.
C22_QuartilesAroundMedian ==
    /\ QuartileOf("quarterOne") =>
          last.status = "ok" /\ RLe(last.val, obj.median)
    /\ QuartileOf("quarterThree") =>
          /\ last.status = "ok"
          /\ Len(obj.data) \notin {3, 4} => RLe(obj.median, last.val)
          /\ Len(obj.data) \in {3, 4} =>
                /\ last.val = Rat(Sort(obj.data)[1] + Sort(obj.data)[2], 2)
                /\ last.val = quarterOne(obj.data).val
                /\ RLe(last.val, obj.median)
          /\ Len(obj.data) = 3 =>
                (RLt(last.val, obj.median)
                     <=> Sort(obj.data)[1] < Sort(obj.data)[2])
          /\ Len(obj.data) = 4 =>
                (RLt(last.val, obj.median)
                     <=> Sort(obj.data)[1] < Sort(obj.data)[3])

\* the third quartile of four values whose two smallest are equal and below
\* the third smallest: it is below the median
C22_Witness ==
    /\ QuartileOf("quarterThree")
    /\ Len(obj.data) = 4
    /\ Sort(obj.data)[1] = Sort(obj.data)[2]
    /\ Sort(obj.data)[2] < Sort(obj.data)[3]
    /\ RLt(last.val, obj.median)

---------------------------------------------------------------------------
(* The whisker ends of a boxplot, checked under SpecStats *)

\* C23: for every non-empty dataset drawBoxplot computes its whisker ends
\* without raising, with lowerBound <= upperBound, so that at least one data
\* value lies in [lowerBound, upperBound] and is not flagged as an outlier.
\* It fails: a dataset of equal values raises in the lower search, and for
\* [0, 1] the lower end is 1, the upper end 0 and both values are outliers.
C23_Original ==
    (obj.alive /\ obj.data # <<>> /\ box.status # "none") =>
        /\ box.status = "ok"
        /\ RLe(box.lowerBound, box.upperBound)
        /\ \E i \in 1..Len(obj.data) :
              /\ RLe(box.lowerBound, RInt(obj.data[i]))
              /\ RLe(RInt(obj.data[i]), box.upperBound)
        /\ Len(box.outliers) < Len(obj.data)

---------------------------------------------------------------------------
(* Setting the title and the axis labels, checked under SpecLabels *)

\* the text the last draw gave to a part of the frame
Rendered(part, text) ==
    \E i \in 1..Len(canvas') :
        canvas'[i].part = part /\ canvas'[i].text = text

\* a successful draw straight after the call op
DrawAfter(op) ==
    /\ ccall.op = op
    /\ ccall'.op = "draw"
    /\ ccall'.status = "ok"

\* C24: after set_y_label(v) on a BoxplotGraph or a Scatterplot the chart's
\* yAxisLabel is v and the next draw renders v as the label of the Y axis;
\* likewise set_x_label for xAxisLabel and set_title for title.  It fails:
\* Scatterplot.set_y_label leaves yAxisLabel as it was, and the draw that
\* follows renders the old label.
C24_Original ==
    /\ [](/\ ccall.op = "set_y_label" => chart.yAxisLabel = ccall.arg
          /\ ccall.op = "set_x_label" => chart.xAxisLabel = ccall.arg
          /\ ccall.op = "set_title" => chart.title = ccall.arg)
    /\ [][/\ DrawAfter("set_y_label") => Rendered("ylabel", ccall.arg)
          /\ DrawAfter("set_x_label") => Rendered("xlabel", ccall.arg)
          /\ DrawAfter("set_title") => Rendered("title", ccall.arg)]_vars

---------------------------------------------------------------------------
(* set_colours, checked under SpecChart *)

\* three components, each of 0..255
IsRgb(colour) ==
    /\ Len(colour) = 3
    /\ colour[1] \in 0..255
    /\ colour[2] \in 0..255
    /\ colour[3] \in 0..255

\* the colours handed to set_colours are one valid colour for each dataset
Acceptable(colours, c) ==
    /\ Len(colours) = c.numDatasets
    /\ \A i \in 1..Len(colours) :
          colours[i] # Nothing /\ IsRgb(colours[i][1])

\* C25: set_colours is all-or-nothing: when the number of colours differs
\* from numDatasets or any colour is invalid it raises and leaves the
\* chart's colours (and the rest of the chart) unchanged; otherwise it
\* replaces the colours with exactly the given ones, one for each dataset.
C25_SetColoursAllOrNothing ==
    [][ccall'.op = "set_colours" =>
          IF Acceptable(ccall'.colours, chart)
          THEN /\ ccall'.status = "ok"
               /\ chart' = [chart EXCEPT !.colours = ccall'.colours]
               /\ Len(chart'.colours) = chart'.numDatasets
          ELSE /\ ccall'.status = "ValueError"
               /\ chart' = chart]_vars

\* the first of two colours is valid and the second is not: the call was
\* refused and neither colour was taken
C25_Witness ==
    /\ ccall.op = "set_colours"
    /\ ccall.status = "ValueError"
    /\ ccall.colours = <<Just(Red), Just(TooBright)>>
    /\ chart.numDatasets = 2
    /\ chart.colours[1] # Just(Red)

====
